---------------------------- MODULE Spec2Model ----------------------------
(***************************************************************************)
(* The camera frame pipeline of arena-web-core: CameraImageProvider (the   *)
(* capability-detection chain, the processor registry, the tick-pulled and *)
(* push-driven frame loops, single-flight distribution) and the            *)
(* AprilTagProcessor that drives the detection worker.                     *)
(*                                                                         *)
(* src/src/systems/cv/cameraImageProvider.js holds two revisions of the    *)
(* class: lines 1-391 (revision 1: every helper is pulled, GUM helpers by  *)
(* window.requestAnimationFrame/_onGUMFrame) and lines 393-765 (revision   *)
(* 2: non-XRFrame helpers push through distributeFrameData).  The variable *)
(* rev selects the revision; it never changes.                             *)
(*                                                                         *)
(* Scheduling.  Every action is one run of a handler up to its next        *)
(* `await` or its return, together with the promise reactions that are     *)
(* already due then (Promise.all over promises that are settled, the       *)
(* return of an async function that awaited nothing).  An `await` on work  *)
(* of another component (a helper's init or getFrameData, a processor's    *)
(* processImage) ends the action; a later action resumes the handler.      *)
(*                                                                         *)
(* Ten specifications share the variables:                                 *)
(*   Spec        the provider with its frame loops and processors;         *)
(*   SpecFaulty  Spec with processors that break the processImage          *)
(*               contract, and weak fairness of the settling of promises;  *)
(*   SpecLoops   Spec with room for a second outstanding tick request;     *)
(*   SpecDetect  detection and registration on every platform;             *)
(*   SpecTag     the AprilTagProcessor with its worker;                    *)
(*   SpecVps     the OpenVPSProcessor with its clock and its map server;   *)
(*   SpecHelper  one capture helper of each class, called by its owner;    *)
(*   SpecFrame   the metadata a helper composes from the host's samples;   *)
(*   SpecAnchors the ARMarker system's origin anchor and the host's        *)
(*               persistent anchors;                                       *)
(*   SpecArmarker the ARMarker system's processors and the camera provider *)
(*               events of its scene.                                      *)
(***************************************************************************)
EXTENDS Integers, Sequences, FiniteSets, TLC

\* ------------------------------------------------------------------ bounds
MaxFrames == 2      \* frames the capture source produces in one behaviour
MaxRaf == 1         \* outstanding requestAnimationFrame requests
MaxAwait == 2       \* frame callbacks suspended at `await getFrameData`
MaxPosted == 3      \* messages posted to the worker in one behaviour
MaxTime == 5        \* ticks of the clock beyond the first eligible instant
MaxArmed == 2       \* requestVideoFrameCallback requests not yet run
MaxAnchors == 9     \* persistent anchor handles the platform has issued
MaxNow == 4         \* the host's clocks while a helper composes frames
MaxLoops == 2       \* tick requests outstanding once loops may double
MaxProcessors == 3  \* AprilTagProcessor objects the ARMarker system constructs

NULL == "null"

\* The capture helper candidates in the order _detectAndInitializeApi tries
\* them; the value is the activeApiName the provider records.
Candidates == <<"webar-viewer", "webxr-raw-camera", "ar-headset-gum", "webar-gum">>
CandidateSet == {Candidates[i] : i \in 1..4}

\* The registered consumers.  The provider sees a processor through the
\* promise processImage returns, which is settled when the call returns (as
\* AprilTagProcessor's always is; what that processor does with the frame
\* is the subject of SpecTag) or settles in a later task (as
\* OpenVPSProcessor's once it uploads the frame), resolved or rejected.
Procs == {"p1", "p2"}

VARIABLES
    rev,              \* revision of CameraImageProvider (1 or 2)
    platform,         \* what the host supports and the glContext (fixed)
    processors,       \* this.processors
    activeApiName,    \* this.activeApiName
    captureHelper,    \* this.captureHelper (the candidate it was built for)
    isCapturing,      \* this.isCapturing
    isPipelineBusy,   \* this.isPipelineBusy
    xrSession,        \* this.xrSession is non-null
    xrRefSpace,       \* this.xrRefSpace is non-null
    detectPc,         \* where _detectAndInitializeApi is suspended
    initLog,          \* what became of each candidate's init()
    destroyed,        \* destroy() has been called
    isStreaming,      \* BaseCaptureHelper.isStreaming of the adopted helper
    rafPending,       \* requestAnimationFrame callbacks not yet run
    awaiting,         \* frame callbacks suspended at `await getFrameData`
    rounds,           \* distribution rounds whose promises are pending
    frames,           \* frames produced so far (the next frame's id - 1)
    calls,            \* helper / host calls made by the last handler
    invoked,          \* processImage calls made by the last handler
    outcome,          \* which way the last handler went
    events,           \* 'armarker-detection' events the last handler sent
    cvWorkerReady,    \* AprilTagProcessor.cvWorkerReady
    knownMarkers,     \* AprilTagProcessor.knownMarkers
    posted,           \* every message posted to cvWorker, in order
    workerRead,       \* how many of them the worker has processed
    workerMarkers,    \* the worker's copy of the known markers
    fromWorker,       \* worker messages not yet handled by the processor
    options,          \* OpenVPSProcessor.options (fixed)
    now,              \* what Date.now() returns
    isEnabled,        \* OpenVPSProcessor.isEnabled
    mapServer,        \* OpenVPSProcessor.mapServer is non-null
    isBusy,           \* OpenVPSProcessor.isBusy
    lastSendTime,     \* OpenVPSProcessor.lastSendTime
    retryCount,       \* OpenVPSProcessor.retryCount
    inflight,         \* processImage calls suspended at an await
    sends,            \* the last two calls that passed the rate limit
    poseUpdates,      \* onPoseUpdate invocations of the last handler
    vpsOutcome,       \* which way the last OpenVPSProcessor handler went
    helper,           \* a capture helper on its own, as a record of its fields
    armarker,         \* the ARMarker system, as a record of its fields
    composed          \* the frame a helper composed last, and the host's clocks

provVars == <<processors, activeApiName, captureHelper, isCapturing,
              isPipelineBusy, xrSession, xrRefSpace, detectPc, initLog,
              destroyed, isStreaming, rafPending, awaiting, rounds>>
tagVars == <<cvWorkerReady, knownMarkers, posted, workerRead, workerMarkers,
             fromWorker>>
pipeVars == <<rev, platform, provVars, frames, calls, invoked, outcome,
              events, tagVars>>
vpsVars == <<options, now, isEnabled, mapServer, isBusy, lastSendTime,
             retryCount, inflight, sends, poseUpdates, vpsOutcome>>
vars == <<pipeVars, vpsVars, helper, armarker, composed>>

\* ------------------------------------------------- the state as one record
\* Handlers call one another (_startCaptureLoop from registerProcessor, ...);
\* each is an operator from a state record to a state record, and an action
\* applies the outermost one to the current state.
NoInvocation == [p \in Procs |-> 0]

\* The per-handler variables (calls, invoked, outcome, events) start empty
\* in every action.
Cur ==
    [processors |-> processors, activeApiName |-> activeApiName,
     captureHelper |-> captureHelper, isCapturing |-> isCapturing,
     isPipelineBusy |-> isPipelineBusy, xrSession |-> xrSession,
     xrRefSpace |-> xrRefSpace, detectPc |-> detectPc, initLog |-> initLog,
     destroyed |-> destroyed, isStreaming |-> isStreaming,
     rafPending |-> rafPending, awaiting |-> awaiting, rounds |-> rounds,
     frames |-> frames, calls |-> <<>>, invoked |-> NoInvocation,
     outcome |-> "", events |-> <<>>,
     cvWorkerReady |-> cvWorkerReady, knownMarkers |-> knownMarkers,
     posted |-> posted, workerRead |-> workerRead,
     workerMarkers |-> workerMarkers, fromWorker |-> fromWorker]

IsState(s) ==
    /\ processors = s.processors
    /\ activeApiName = s.activeApiName
    /\ captureHelper = s.captureHelper
    /\ isCapturing = s.isCapturing
    /\ isPipelineBusy = s.isPipelineBusy
    /\ xrSession = s.xrSession
    /\ xrRefSpace = s.xrRefSpace
    /\ detectPc = s.detectPc
    /\ initLog = s.initLog
    /\ destroyed = s.destroyed
    /\ isStreaming = s.isStreaming
    /\ rafPending = s.rafPending
    /\ awaiting = s.awaiting
    /\ rounds = s.rounds
    /\ frames = s.frames
    /\ calls = s.calls
    /\ invoked = s.invoked
    /\ outcome = s.outcome
    /\ events = s.events
    /\ cvWorkerReady = s.cvWorkerReady
    /\ knownMarkers = s.knownMarkers
    /\ posted = s.posted
    /\ workerRead = s.workerRead
    /\ workerMarkers = s.workerMarkers
    /\ fromWorker = s.fromWorker

Becomes(s) ==
    /\ outcome' = s.outcome
    /\ frames' = s.frames
    /\ calls' = s.calls
    /\ invoked' = s.invoked
    /\ events' = s.events
    /\ processors' = s.processors
    /\ activeApiName' = s.activeApiName
    /\ captureHelper' = s.captureHelper
    /\ isCapturing' = s.isCapturing
    /\ isPipelineBusy' = s.isPipelineBusy
    /\ xrSession' = s.xrSession
    /\ xrRefSpace' = s.xrRefSpace
    /\ detectPc' = s.detectPc
    /\ initLog' = s.initLog
    /\ destroyed' = s.destroyed
    /\ isStreaming' = s.isStreaming
    /\ rafPending' = s.rafPending
    /\ awaiting' = s.awaiting
    /\ rounds' = s.rounds
    /\ cvWorkerReady' = s.cvWorkerReady
    /\ knownMarkers' = s.knownMarkers
    /\ posted' = s.posted
    /\ workerRead' = s.workerRead
    /\ workerMarkers' = s.workerMarkers
    /\ fromWorker' = s.fromWorker
    /\ UNCHANGED <<rev, platform>>
    /\ UNCHANGED <<vpsVars, helper, armarker, composed>>

Call(s, what) == [s EXCEPT !.calls = Append(@, what)]

\* ------------------------------------------------------- capture helpers
\* <Helper>.prototype.usesXRFrame
UsesXRFrame(r, c) ==
    CASE c = "webxr-raw-camera" -> TRUE
      [] c = "webar-viewer" -> (r = 1)
      [] OTHER -> FALSE

\* The values a helper's init() can resolve to (a rejection of a GUM
\* helper's init is caught at lines 514 and 554 and handled as a failure).
\* Revision 2's WebARViewerCaptureHelper.init has no failing path once
\* isSupported, which the provider has just checked, is true.
InitResults(r, c) ==
    IF r = 2 /\ c = "webar-viewer" THEN {TRUE} ELSE BOOLEAN

\* BaseCaptureHelper.startStreaming / stopStreaming, as every helper's
\* override calls them first.
HelperStartStreaming(s) == Call([s EXCEPT !.isStreaming = TRUE], "startStreaming")
HelperStopStreaming(s) == Call([s EXCEPT !.isStreaming = FALSE], "stopStreaming")
\* <Helper>.destroy -> BaseCaptureHelper.destroy
HelperDestroy(s) == Call([s EXCEPT !.isStreaming = FALSE], "destroy")

\* ----------------------------------------- CameraImageProvider: the loop
\* The callbacks the provider hands to requestAnimationFrame.
TickHandlers == {"_onXRFrame", "_onGUMFrame"}
Total(f) == f["_onXRFrame"] + f["_onGUMFrame"]

\* xrSession.requestAnimationFrame(cb) / window.requestAnimationFrame(cb)
RequestFrame(s, cb) ==
    Call([s EXCEPT !.rafPending[cb] = @ + 1], "requestAnimationFrame")

\* _startCaptureLoop, revision 1 (lines 228-263)
StartCaptureLoop1(s) ==
    IF s.isCapturing \/ s.captureHelper = NULL THEN s
    ELSE LET a == HelperStartStreaming([s EXCEPT !.isCapturing = TRUE])
         IN IF UsesXRFrame(1, s.captureHelper)
            THEN IF s.xrSession THEN RequestFrame(a, "_onXRFrame")
                 ELSE HelperStopStreaming([a EXCEPT !.isCapturing = FALSE])
            ELSE RequestFrame(a, "_onGUMFrame")

\* _startCaptureLoop, revision 2 (lines 606-644): an XRFrame helper gets a
\* host tick requested and no startStreaming call; any other helper gets
\* startStreaming and pushes its frames itself.
StartCaptureLoop2(s) ==
    IF s.isCapturing \/ s.captureHelper = NULL THEN s
    ELSE LET a == [s EXCEPT !.isCapturing = TRUE]
         IN IF UsesXRFrame(2, s.captureHelper)
            THEN IF s.xrSession THEN RequestFrame(a, "_onXRFrame")
                 ELSE [a EXCEPT !.isCapturing = FALSE]
            ELSE HelperStartStreaming(a)

StartCaptureLoop(s) ==
    IF rev = 1 THEN StartCaptureLoop1(s) ELSE StartCaptureLoop2(s)

\* _stopCaptureLoop (lines 646-653; 265-272 in revision 1)
StopCaptureLoop(s) ==
    IF ~s.isCapturing THEN s
    ELSE LET a == [s EXCEPT !.isCapturing = FALSE]
         IN IF a.captureHelper # NULL THEN HelperStopStreaming(a) ELSE a

\* Whether the handler that ran has requested no more ticks than the model
\* keeps track of.
RafRoom == Total(rafPending') <= MaxRaf

\* --------------------------------------------------------------- frames
RequestedWidth == 640
RequestedHeight == 480

\* The FrameData a helper built for candidate c composes for frame id:
\* WebXRRawCameraCaptureHelper.getFrameData (webxr-raw-camera-helper.js
\* 232-245), WebARViewerCaptureHelper._handleProcessCV (part_001 251-266) and
\* GetUserMediaCaptureHelper (getusermedia-helper.js 480-499 pushed, 193-214
\* pulled), which sets cameraIntrinsics to null and adds its canvas.
IsGum(c) == c \in {"ar-headset-gum", "webar-gum"}
FrameOf(c, id) ==
    [id |-> id, imageData |-> TRUE, metadata |-> TRUE, buffer |-> TRUE,
     canvas |-> IsGum(c), format |-> "RGBA",
     width |-> RequestedWidth, height |-> RequestedHeight,
     cameraIntrinsics |-> ~IsGum(c), timestamp |-> id, source |-> c]

\* What a caller of distributeFrameData may hand over instead of a frame:
\* null, or a record without imageData or without metadata.
BadFrame(kind, id) ==
    [FrameOf(NULL, id) EXCEPT !.imageData = (kind = "noMetadata"),
                              !.metadata = (kind = "noImageData"),
                              !.buffer = FALSE, !.cameraIntrinsics = FALSE]
BadKinds == {"nullFrame", "noImageData", "noMetadata"}

\* ------------------------------------- CameraImageProvider: distribution
\* The for-loop of _distributeFrameToProcessors: one processImage call on
\* each member of this.processors.
Invocations(ps) == [p \in Procs |-> IF p \in ps THEN 1 ELSE 0]

\* The handler met frame and did fate with it.
Fate(s, frame, fate) == [s EXCEPT !.frames = frame.id, !.outcome = fate]

\* Promise.all(processingPromises).finally(...): runs once every promise of
\* the round has settled.
RoundFinally(s, id) ==
    [s EXCEPT !.isPipelineBusy = FALSE, !.rounds = {r \in @ : r.frame # id}]

\* The loop and the Promise.all of _distributeFrameToProcessors (lines
\* 730-746; 355-371 in revision 1).
\* defer: the processors whose promise is still pending when the task ends.
RunRound(s, frame, defer) ==
    LET inv == Invocations(s.processors)
        a == [Fate(s, frame, "distributed") EXCEPT
                !.invoked = inv,
                !.rounds = @ \cup
                    {[frame |-> frame.id,
                      pending |-> {p \in defer : inv[p] > 0}]}]
    IN IF \A p \in defer : inv[p] = 0
       THEN RoundFinally(a, frame.id) ELSE a

\* _distributeFrameToProcessors, revision 2 (lines 719-747): the caller has
\* set isPipelineBusy.
DistributeFrameToProcessors2(s, frame, defer) ==
    IF ~frame.imageData \/ ~frame.metadata
    THEN Fate([s EXCEPT !.isPipelineBusy = FALSE], frame, "droppedInvalid")
    ELSE RunRound(s, frame, defer)

\* _distributeFrameToProcessors, revision 1 (lines 348-372): sets
\* isPipelineBusy itself.
DistributeFrameToProcessors1(s, frame, defer) ==
    IF ~frame.imageData \/ ~frame.metadata
    THEN Fate(s, frame, "droppedInvalid")
    ELSE RunRound([s EXCEPT !.isPipelineBusy = TRUE], frame, defer)

\* ------------------------------------- CameraImageProvider: detection
\* _handleApiInitializationError (lines 564-568)
HandleApiInitializationError(s) ==
    Call([s EXCEPT !.activeApiName = NULL, !.captureHelper = NULL],
         "apiInitializationError")

\* The static probes.  WebXRRawCameraCaptureHelper.isSupported needs the
\* session, the GL context and window.XRWebGLBinding.
WebARSupported == platform.webar
RawSupported(s) == s.xrSession /\ platform.gl /\ platform.xrBinding
GumSupported == platform.gum
HeadsetDetected == platform.headset

\* The final check of _detectAndInitializeApi (lines 527-531)
DetectFinalCheck(s) ==
    [(IF s.captureHelper = NULL THEN HandleApiInitializationError(s) ELSE s)
        EXCEPT !.detectPc = "done"]

\* Candidate 4 (lines 522-525 and _tryFallbackGum 534-541, 558-561) up to the
\* await of the helper's init.  Without getUserMedia, _tryFallbackGum reports
\* and returns, and the final check follows at once.
DetectFallback(s) ==
    IF s.captureHelper # NULL THEN DetectFinalCheck(s)
    ELSE IF GumSupported THEN [s EXCEPT !.detectPc = "webar-gum"]
    ELSE DetectFinalCheck(HandleApiInitializationError(s))

\* Candidate 3 (lines 497-503) up to the await of init
DetectHeadset(s) ==
    IF HeadsetDetected /\ s.captureHelper = NULL /\ GumSupported
    THEN [s EXCEPT !.detectPc = "ar-headset-gum"]
    ELSE DetectFallback(s)

\* Candidate 2 (lines 476-483) up to the await of init
DetectRaw(s) ==
    IF /\ s.xrSession /\ platform.gl /\ s.captureHelper = NULL
       /\ RawSupported(s) /\ s.xrRefSpace
    THEN [s EXCEPT !.detectPc = "webxr-raw-camera"]
    ELSE DetectHeadset(s)

\* Candidate 1 (lines 462-466) up to the await of init
DetectWebAR(s) ==
    IF s.xrSession /\ WebARSupported
    THEN [s EXCEPT !.detectPc = "webar-viewer"]
    ELSE DetectRaw(s)

\* A faulty variant of Adopt: the helper is recorded and the waiting
\* processors are left without a capture loop.
AdoptWithoutStart(s, c) ==
    [s EXCEPT !.activeApiName = c, !.captureHelper = c,
              !.initLog[c] = "won", !.outcome = "adopted"]

\* A winning init: lines 467-471, 484-488, 507-511, 545-550.
Adopt(s, c) ==
    LET a == [s EXCEPT !.activeApiName = c, !.captureHelper = c,
                       !.initLog[c] = "won", !.outcome = "adopted"]
    IN IF a.processors # {} /\ ~a.isCapturing THEN StartCaptureLoop(a) ELSE a

\* A faulty variant of AfterInit: a candidate whose init fails ends the
\* detection, the candidates after it are not tried.
AfterInitNoFallThrough(s, c, ok) ==
    IF ok /\ s.captureHelper = NULL
    THEN [Adopt(s, c) EXCEPT !.detectPc = "done"]
    ELSE DetectFinalCheck(s)

\* The continuation of `await helper.init()` for candidate c with result ok,
\* run to the next await of the detection.
AfterInit(s, c, ok) ==
    CASE c = "webar-viewer" ->
            IF ok THEN [Adopt(s, c) EXCEPT !.detectPc = "done"]
            ELSE DetectRaw(s)
      [] c = "webxr-raw-camera" ->
            IF ok THEN [Adopt(s, c) EXCEPT !.detectPc = "done"]
            ELSE DetectHeadset(s)
      [] c = "ar-headset-gum" ->
            IF ok /\ s.captureHelper = NULL
            THEN [Adopt(s, c) EXCEPT !.detectPc = "done"]
            ELSE DetectFallback(s)
      [] c = "webar-gum" ->
            DetectFinalCheck(
                IF ok /\ s.captureHelper = NULL THEN Adopt(s, c)
                ELSE IF ~ok THEN HandleApiInitializationError(s)
                ELSE s)

\* `await helper.init()` resumes in _detectAndInitializeApi/_tryFallbackGum.
InitSettles(c, ok) ==
    /\ detectPc = c
    /\ ok \in InitResults(rev, c)
    /\ Becomes(AfterInit([Cur EXCEPT !.initLog[c] = IF ok THEN "ignored"
                                                   ELSE "failed"], c, ok))
    /\ RafRoom

\* The continuation of `await helper.init()` for candidate c when the promise
\* rejects.  The GUM candidates await inside a try (lines 504-516, 542-557):
\* the catch logs the error and, in _tryFallbackGum, reports it.  The first
\* two candidates are awaited outside any try (lines 466, 483): the
\* rejection becomes that of the promise of _detectAndInitializeApi, which
\* the constructor (line 440) drops, and nothing after the await runs.
AfterInitRejected(s, c) ==
    CASE c = "ar-headset-gum" ->
            DetectFallback([s EXCEPT !.outcome = "initErrorCaught"])
      [] c = "webar-gum" ->
            DetectFinalCheck(HandleApiInitializationError(
                [s EXCEPT !.outcome = "initErrorCaught"]))
      [] OTHER ->
            [s EXCEPT !.detectPc = "rejected",
                      !.outcome = "unhandledRejection"]

\* `await helper.init()` throws: init called something of the host that
\* threw outside the try blocks of init.
InitRejects(c) ==
    /\ detectPc = c
    /\ Becomes(AfterInitRejected(
           [Cur EXCEPT !.initLog[c] = IF IsGum(c) THEN "failed"
                                      ELSE "rejected"], c))

\* ---------------------------------- CameraImageProvider: registration
NotAProcessor == "notAProcessor"

\* registerProcessor (lines 570-597)
RegisterProcessorOp(s, p) ==
    IF p = NotAProcessor THEN s
    ELSE LET a == [s EXCEPT !.processors = @ \cup {p},
                            !.outcome = IF p \in s.processors
                                        THEN "registeredAgain" ELSE @]
         IN IF a.captureHelper # NULL /\ ~a.isCapturing /\ a.processors # {}
            THEN StartCaptureLoop(a) ELSE a

RegisterProcessor(p) ==
    /\ Becomes(RegisterProcessorOp(Cur, p))
    /\ RafRoom

\* registerProcessor at a moment when the tick it requests is one more than
\* RafRoom keeps track of: the request of an earlier _startCaptureLoop has
\* not been served yet (_stopCaptureLoop, 646-653, cancels nothing).
RegisterProcessorWhileTickPending(p) ==
    /\ Becomes(RegisterProcessorOp(Cur, p))
    /\ ~RafRoom
    /\ Total(rafPending') <= MaxLoops

\* A faulty variant of unregisterProcessor: the last processor leaves and
\* the capture loop keeps running.
UnregisterProcessorKeepsLoop(s, p) ==
    [s EXCEPT !.processors = @ \ {p},
              !.outcome = IF p \in s.processors THEN @
                          ELSE "unregisteredAbsent"]

\* unregisterProcessor (lines 599-604)
UnregisterProcessorOp(s, p) ==
    LET a == [s EXCEPT !.processors = @ \ {p},
                       !.outcome = IF p \in s.processors THEN @
                                   ELSE "unregisteredAbsent"]
    IN IF a.isCapturing /\ a.processors = {} THEN StopCaptureLoop(a) ELSE a

UnregisterProcessor(p) ==
    /\ p \in Procs
    /\ Becomes(UnregisterProcessorOp(Cur, p))

\* Whether the destroy of the helper built for candidate c calls
\* stopStreaming on itself: the pulled GetUserMediaCaptureHelper
\* (getusermedia-helper.js 236) and both WebARViewerCaptureHelpers (1002,
\* part_001 315) do, the pushed GetUserMediaCaptureHelper (565-588) and
\* WebXRRawCameraCaptureHelper (250-264) do not.
DestroyStopsItself(r, c) ==
    CASE c = "webxr-raw-camera" -> FALSE
      [] c = "webar-viewer" -> TRUE
      [] OTHER -> (r = 1)

\* A faulty variant of destroy: the registry is not cleared.
DestroyOpLeavesProcessors(s) ==
    LET a == StopCaptureLoop(s)
        b == IF a.captureHelper # NULL THEN HelperDestroy(a) ELSE a
    IN [b EXCEPT !.captureHelper = NULL,
                 !.activeApiName = NULL, !.xrSession = FALSE,
                 !.xrRefSpace = FALSE, !.isPipelineBusy = FALSE,
                 !.destroyed = TRUE]

\* destroy (lines 749-764)
DestroyOp(s) ==
    LET a == StopCaptureLoop(s)
        b == IF a.captureHelper # NULL THEN HelperDestroy(a) ELSE a
    IN [b EXCEPT !.processors = {}, !.captureHelper = NULL,
                 !.activeApiName = NULL, !.xrSession = FALSE,
                 !.xrRefSpace = FALSE, !.isPipelineBusy = FALSE,
                 !.destroyed = TRUE]

Destroy ==
    /\ destroyed \in BOOLEAN
    /\ Becomes(DestroyOp(Cur))

\* ------------------------------------ CameraImageProvider: frame loops
\* The handler is suspended at `await this.captureHelper.getFrameData(...)`.
Suspend(s, cb) ==
    [s EXCEPT !.awaiting[cb] = @ + 1]

\* A faulty variant of revision 2's _onXRFrame: the next tick is requested
\* before the test of isCapturing.
OnXRFrame2RequestsFirst(s) ==
    LET a == RequestFrame(s, "_onXRFrame")
    IN IF \/ ~s.isCapturing \/ ~s.xrSession \/ s.captureHelper = NULL
          \/ ~UsesXRFrame(2, s.captureHelper)
       THEN [a EXCEPT !.isCapturing = FALSE]
       ELSE IF a.processors = {} \/ a.isPipelineBusy THEN a
            ELSE Suspend(a, "_onXRFrame")

\* _onXRFrame, revision 2, up to the await (lines 655-671)
OnXRFrame2(s) ==
    IF \/ ~s.isCapturing \/ ~s.xrSession \/ s.captureHelper = NULL
       \/ ~UsesXRFrame(2, s.captureHelper)
    THEN [s EXCEPT !.isCapturing = FALSE]
    ELSE LET a == RequestFrame(s, "_onXRFrame")
         IN IF a.processors = {} \/ a.isPipelineBusy THEN a
            ELSE Suspend(a, "_onXRFrame")

\* _onXRFrame, revision 1, up to the await (lines 274-301); pose: whether
\* frame.getViewerPose returned one.
OnXRFrame1(s, pose) ==
    IF \/ ~s.isCapturing \/ ~s.xrSession \/ s.captureHelper = NULL
       \/ ~UsesXRFrame(1, s.captureHelper)
    THEN [s EXCEPT !.isCapturing = FALSE]
    ELSE LET a == RequestFrame(s, "_onXRFrame")
         IN IF a.processors = {} \/ a.isPipelineBusy THEN a
            ELSE IF ~a.xrRefSpace \/ ~pose THEN a
            ELSE Suspend(a, "_onXRFrame")

\* _onGUMFrame, revision 1, up to the await (lines 315-332)
OnGUMFrame(s) ==
    IF \/ ~s.isCapturing \/ s.captureHelper = NULL
       \/ UsesXRFrame(1, s.captureHelper)
    THEN [s EXCEPT !.isCapturing = FALSE]
    ELSE LET a == RequestFrame(s, "_onGUMFrame")
         IN IF a.processors = {} \/ a.isPipelineBusy THEN a
            ELSE Suspend(a, "_onGUMFrame")

TickOp(s, cb, pose) ==
    IF cb = "_onGUMFrame" THEN OnGUMFrame(s)
    ELSE IF rev = 1 THEN OnXRFrame1(s, pose)
    ELSE OnXRFrame2(s)

\* The host runs one requested frame callback.  Only revision 1's
\* _onXRFrame asks for the viewer pose.
Tick(cb, pose) ==
    /\ rafPending[cb] > 0
    /\ (rev = 2 \/ cb = "_onGUMFrame") => pose
    /\ Total(awaiting) < MaxAwait
    /\ Becomes(TickOp([Cur EXCEPT !.rafPending[cb] = @ - 1], cb, pose))

\* The helper the provider adopted (also after it let go of it in destroy).
Adopted(s) == {c \in CandidateSet : s.initLog[c] = "won"}
WonHelper(s) == CHOOSE c \in CandidateSet : s.initLog[c] = "won"

\* What the awaited getFrameData yields: a frame, null, or a rejection.
FrameResults == {"frame", "null", "throw"}

\* A faulty variant of the rest of the tick handlers: the catch sets
\* isPipelineBusy and gives up capturing.
AfterGetFrameDataThrowStops(s, res, defer) ==
    IF res = "throw"
    THEN [s EXCEPT !.outcome = "frameError", !.isPipelineBusy = TRUE,
                   !.isCapturing = FALSE]
    ELSE IF res # "frame" THEN s
    ELSE LET f == FrameOf(WonHelper(s), s.frames + 1)
         IN IF rev = 1 THEN DistributeFrameToProcessors1(s, f, defer)
            ELSE DistributeFrameToProcessors2(
                     [s EXCEPT !.isPipelineBusy = TRUE], f, defer)

\* The rest of _onXRFrame / _onGUMFrame after the await (lines 671-682,
\* 301-312, 332-345); the catch (673-676) logs the error and returns.
AfterGetFrameData(s, res, defer) ==
    IF res = "throw" THEN [s EXCEPT !.outcome = "frameError"]
    ELSE IF res # "frame" THEN s
    ELSE LET f == FrameOf(WonHelper(s), s.frames + 1)
         IN IF rev = 1 THEN DistributeFrameToProcessors1(s, f, defer)
            ELSE DistributeFrameToProcessors2(
                     [s EXCEPT !.isPipelineBusy = TRUE], f, defer)

\* The promise of getFrameData settles and the suspended handler resumes.
\* Only a registered processor that is handed a frame can hold the round.
GetFrameDataSettles(cb, res, defer) ==
    /\ awaiting[cb] > 0
    /\ res = "frame" => frames < MaxFrames
    /\ defer \subseteq (IF res = "frame" THEN processors ELSE {})
    /\ Becomes(AfterGetFrameData([Cur EXCEPT !.awaiting[cb] = @ - 1],
                                  res, defer))

\* A faulty variant of distributeFrameData: no isCapturing check.
DistributeFrameDataWhileStopped(s, frame, defer) ==
    IF s.processors = {} THEN Fate(s, frame, "droppedNoProcessor")
    ELSE IF s.isPipelineBusy THEN Fate(s, frame, "droppedBusy")
    ELSE IF ~frame.imageData \/ ~frame.metadata
         THEN Fate(s, frame, "droppedInvalid")
    ELSE DistributeFrameToProcessors2([s EXCEPT !.isPipelineBusy = TRUE],
                                      frame, defer)

\* A faulty variant of distributeFrameData: no isPipelineBusy check.
DistributeFrameDataUnguarded(s, frame, defer) ==
    IF ~s.isCapturing THEN Fate(s, frame, "droppedStopped")
    ELSE IF s.processors = {} THEN Fate(s, frame, "droppedNoProcessor")
    ELSE IF ~frame.imageData \/ ~frame.metadata
         THEN Fate(s, frame, "droppedInvalid")
    ELSE DistributeFrameToProcessors2([s EXCEPT !.isPipelineBusy = TRUE],
                                      frame, defer)

\* distributeFrameData (lines 690-716)
DistributeFrameDataOp(s, frame, defer) ==
    IF ~s.isCapturing THEN Fate(s, frame, "droppedStopped")
    ELSE IF s.processors = {} THEN Fate(s, frame, "droppedNoProcessor")
    ELSE IF s.isPipelineBusy THEN Fate(s, frame, "droppedBusy")
    ELSE IF ~frame.imageData \/ ~frame.metadata
         THEN Fate(s, frame, "droppedInvalid")
    ELSE DistributeFrameToProcessors2([s EXCEPT !.isPipelineBusy = TRUE],
                                      frame, defer)

\* The helpers that push: those revision 2 hands providerInterface to
\* (lines 465, 503, 541) and that do not use the XR frame.
Pushes(c) == c \in CandidateSet /\ ~UsesXRFrame(2, c)

\* The push helper the provider adopted (or one it has let go of since)
\* calls providerInterface.distributeFrameData(frameData).
DistributeFrameData(kind, defer) ==
    /\ rev = 2
    /\ frames < MaxFrames
    /\ defer \subseteq (IF kind = "frame" THEN processors ELSE {})
    /\ \E c \in Adopted(Cur) :
          /\ Pushes(c)
          /\ LET frame == IF kind = "frame" THEN FrameOf(c, frames + 1)
                          ELSE BadFrame(kind, frames + 1)
             IN Becomes(DistributeFrameDataOp(Cur, frame, defer))

\* A faulty variant of the settling of a processor's promise: without the
\* catch of line 733 a rejection rejects Promise.all at once, and
\* isPipelineBusy is cleared while other promises of the round are pending,
\* or, with a then() in place of finally(), not at all.
SettleOpWithoutCatch(s, id, p, ok) ==
    LET r == CHOOSE x \in s.rounds : x.frame = id
        r2 == [r EXCEPT !.pending = @ \ {p}]
        a == [s EXCEPT !.rounds = (@ \ {r}) \cup {r2},
                       !.outcome = IF ok THEN @ ELSE "rejected"]
    IN IF ~ok THEN [a EXCEPT !.rounds = @ \ {r2}]
       ELSE IF r2.pending = {} THEN RoundFinally(a, id) ELSE a

\* processImage(...).catch(...) of line 733: the promise of deferred
\* processor p for the round of frame id settles; a rejection is logged and
\* turned into null.  The last one lets Promise.all settle.
SettleOp(s, id, p, ok) ==
    LET r == CHOOSE x \in s.rounds : x.frame = id
        r2 == [r EXCEPT !.pending = @ \ {p}]
        a == [s EXCEPT !.rounds = (@ \ {r}) \cup {r2},
                       !.outcome = IF ok THEN @ ELSE "rejected"]
    IN IF r2.pending = {} THEN RoundFinally(a, id) ELSE a

ProcessorSettles(id, p, ok) ==
    /\ \E r \in rounds : r.frame = id /\ p \in r.pending
    /\ Becomes(SettleOp(Cur, id, p, ok))

\* How a registered processor can break the contract registerProcessor
\* states (571-575: processImage "must ... return a Promise"): processImage
\* throws before it returns, or returns a value without a catch method.
Faults == {"processorThrew", "noPromiseReturned"}

\* The loop of _distributeFrameToProcessors (lines 731-742; 356-367 in
\* revision 1) when processImage of processor thrower faults: the call, or
\* the .catch on what it returned, throws out of the for loop, which is in no
\* try, so the statement Promise.all(...).finally(...) of line 744 is never
\* run.  before: the processors this.processors iterates ahead of thrower;
\* each was invoked and its promise has its own catch, but nothing waits
\* for it.
RunRoundFaulty(s, frame, before, thrower, fault) ==
    [Fate(s, frame, fault) EXCEPT
        !.invoked = [p \in Procs |->
                        IF p \in before \cup {thrower} THEN 1 ELSE 0]]

\* distributeFrameData (lines 690-716) with a frame that passes its four
\* tests, handed to a processor that faults.
ProcessorFaultsOnPush(before, thrower, fault) ==
    /\ rev = 2
    /\ frames < MaxFrames
    /\ isCapturing /\ ~isPipelineBusy
    /\ thrower \in processors /\ before \subseteq processors \ {thrower}
    /\ \E c \in Adopted(Cur) :
          /\ Pushes(c)
          /\ Becomes(RunRoundFaulty([Cur EXCEPT !.isPipelineBusy = TRUE],
                                    FrameOf(c, frames + 1),
                                    before, thrower, fault))

\* The rest of _onXRFrame / _onGUMFrame after the await (lines 677-679,
\* 307-308, 340-341) with a frame, handed to a processor that faults:
\* isPipelineBusy is set at 678 (354 in revision 1) and the exception
\* rejects the promise of the async handler, which nobody holds.
ProcessorFaultsOnTick(cb, before, thrower, fault) ==
    /\ awaiting[cb] > 0
    /\ frames < MaxFrames
    /\ thrower \in processors /\ before \subseteq processors \ {thrower}
    /\ Becomes(RunRoundFaulty([Cur EXCEPT !.awaiting[cb] = @ - 1,
                                          !.isPipelineBusy = TRUE],
                              FrameOf(WonHelper(Cur), frames + 1),
                              before, thrower, fault))

\* --------------------------------------------------- OpenVPSProcessor
\* The processor's own fields as one record; options and now are read where
\* the code reads this.options and Date.now().
VpsCur ==
    [isEnabled |-> isEnabled, mapServer |-> mapServer, isBusy |-> isBusy,
     lastSendTime |-> lastSendTime, retryCount |-> retryCount,
     inflight |-> inflight, sends |-> sends, poseUpdates |-> 0,
     vpsOutcome |-> ""]

VpsBecomes(v) ==
    /\ isEnabled' = v.isEnabled
    /\ mapServer' = v.mapServer
    /\ isBusy' = v.isBusy
    /\ lastSendTime' = v.lastSendTime
    /\ retryCount' = v.retryCount
    /\ inflight' = v.inflight
    /\ sends' = v.sends
    /\ poseUpdates' = v.poseUpdates
    /\ vpsOutcome' = v.vpsOutcome
    /\ UNCHANGED <<options, now>>
    /\ UNCHANGED <<pipeVars, helper, armarker, composed>>

\* The option values of the model, in units of the clock.  The defaults of
\* lines 6-18 are interval 5000, retryDelay 1000 and maxRetries 3, in
\* milliseconds; a caller may pass any values, with or without onPoseUpdate
\* and imageUrl.
BaseOptions ==
    [imageUrl |-> TRUE, interval |-> 3, retryDelay |-> 1, maxRetries |-> 2,
     onPoseUpdate |-> TRUE]
OptionValues ==
    {BaseOptions,
     [BaseOptions EXCEPT !.onPoseUpdate = FALSE],
     [BaseOptions EXCEPT !.retryDelay = 2, !.maxRetries = 0],
     [BaseOptions EXCEPT !.interval = 4],
     [BaseOptions EXCEPT !.imageUrl = FALSE]}

\* The constructor (lines 21-45); serverOk: whether `new MapServer` returned
\* (it is not called without an imageUrl).  Date.now() is far beyond any
\* interval, so that lastSendTime = 0 does not hold the first call back.
VpsConstructed(o, serverOk) ==
    /\ options = o
    /\ now = o.interval
    /\ isEnabled = (o.imageUrl /\ serverOk)
    /\ mapServer = (o.imageUrl /\ serverOk)
    /\ isBusy = FALSE
    /\ lastSendTime = 0
    /\ retryCount = 0
    /\ inflight = {}
    /\ sends = <<>>
    /\ poseUpdates = 0
    /\ vpsOutcome = ""

VpsOut(v, what) == [v EXCEPT !.vpsOutcome = what]

\* The call that went through the rate limit at time id has ended; a
\* failure is recorded with its time and the retryCount it left.
Ended(v, id, how) ==
    [v EXCEPT !.sends = [i \in DOMAIN @ |->
                            IF @[i].at = id /\ @[i].result = "pending"
                            THEN [@[i] EXCEPT
                                    !.result = how,
                                    !.failedAt = IF how = "failed" THEN now
                                                 ELSE @,
                                    !.count = IF how = "failed"
                                              THEN v.retryCount ELSE @]
                            ELSE @[i]],
              !.inflight = {c \in @ : c.id # id}]

\* A faulty variant of the finally block: isBusy is cleared at the end of
\* the try block only, so a thrown error leaves it set.
VpsFinallySkippedOnError(v, id) ==
    IF \E i \in DOMAIN v.sends :
          v.sends[i].at = id /\ v.sends[i].result = "failed"
    THEN v ELSE [v EXCEPT !.isBusy = FALSE]

\* finally (lines 168-170)
VpsFinally(v, id) == [v EXCEPT !.isBusy = FALSE]

\* A faulty variant of the catch block: `<` for `<=` at line 160.
VpsCatchOneRetryShort(v, id, why) ==
    LET n == v.retryCount + 1
        a == [VpsOut(v, why) EXCEPT
                !.retryCount = n,
                !.lastSendTime = IF n < options.maxRetries
                                 THEN now - options.interval + options.retryDelay
                                 ELSE now]
    IN VpsFinally(Ended(a, id, "failed"), id)

\* A faulty variant of the catch block: the retry is allowed at once.
VpsCatchImmediateRetry(v, id, why) ==
    LET n == v.retryCount + 1
        a == [VpsOut(v, why) EXCEPT
                !.retryCount = n,
                !.lastSendTime = IF n <= options.maxRetries
                                 THEN now - options.interval
                                 ELSE now]
    IN VpsFinally(Ended(a, id, "failed"), id)

\* catch (lines 157-167), followed by finally
VpsCatch(v, id, why) ==
    LET n == v.retryCount + 1
        a == [VpsOut(v, why) EXCEPT
                !.retryCount = n,
                !.lastSendTime = IF n <= options.maxRetries
                                 THEN now - options.interval + options.retryDelay
                                 ELSE now]
    IN VpsFinally(Ended(a, id, "failed"), id)

\* The frames processImage is called with: imageData (null or not), its
\* buffer and format, and whether metadata.viewTransformMatrix is a
\* THREE.Matrix4.
VpsFrames ==
    [imageData : BOOLEAN, buffer : BOOLEAN, format : {"RGBA", "RGB"},
     viewTransformMatrix : BOOLEAN]

\* One frame of each kind the code tells apart: the frame of a capture
\* helper, with or without a view matrix, and the three it skips.
GoodFrame ==
    [imageData |-> TRUE, buffer |-> TRUE, format |-> "RGBA",
     viewTransformMatrix |-> TRUE]
FrameInputs ==
    {GoodFrame, [GoodFrame EXCEPT !.viewTransformMatrix = FALSE],
     [GoodFrame EXCEPT !.format = "RGB"], [GoodFrame EXCEPT !.buffer = FALSE],
     [GoodFrame EXCEPT !.imageData = FALSE, !.buffer = FALSE]}

\* Lines 69-70; the call is known by the time it was made at.
Admit(v, frame) ==
    [v EXCEPT !.isBusy = TRUE, !.lastSendTime = now,
              !.sends = Append(IF Len(@) < 2 THEN @ ELSE Tail(@),
                               [at |-> now, net |-> FALSE,
                                result |-> "pending", failedAt |-> now,
                                count |-> 0])]

\* The try block up to its first await (lines 72-103).  drawOk: whether
\* the canvas calls of lines 74-98 return (they throw otherwise).
StartUpload(v, frame, drawOk) ==
    LET a == Admit(v, frame)
        id == now
    IN IF ~drawOk THEN VpsCatch(a, id, "failedDraw")
       ELSE VpsOut([a EXCEPT !.inflight = @ \cup
                        {[id |-> id, stage |-> "toBlob",
                          view |-> frame.viewTransformMatrix]}], "admitted")

\* A faulty variant of processImage: no isBusy check at line 65.
OpenVpsProcessImageNoBusyCheck(v, frame, drawOk) ==
    IF ~v.isEnabled \/ ~v.mapServer \/ ~frame.imageData \/ ~frame.buffer
    THEN VpsOut(v, "skippedDisabled")
    ELSE IF frame.format # "RGBA" THEN VpsOut(v, "skippedFormat")
    ELSE IF now - v.lastSendTime < options.interval
         THEN VpsOut(v, "skippedRate")
    ELSE StartUpload(v, frame, drawOk)

\* OpenVPSProcessor.processImage up to its first await (lines 54-103)
OpenVpsProcessImage(v, frame, drawOk) ==
    IF ~v.isEnabled \/ ~v.mapServer \/ ~frame.imageData \/ ~frame.buffer
    THEN VpsOut(v, "skippedDisabled")
    ELSE IF frame.format # "RGBA" THEN VpsOut(v, "skippedFormat")
    ELSE IF now - v.lastSendTime < options.interval \/ v.isBusy
         THEN VpsOut(v, "skippedRate")
    ELSE StartUpload(v, frame, drawOk)

\* A provider round (or any caller) calls processImage.
VpsProcessImage(frame, drawOk) ==
    /\ frame \in FrameInputs
    /\ drawOk \/ (frame.buffer /\ frame.format = "RGBA")
    /\ VpsBecomes(OpenVpsProcessImage(VpsCur, frame, drawOk))

\* processImage from the settling of toBlob to the localize call (lines
\* 101-122).  blobOk: toBlob handed a blob to its callback (null, or a
\* throw, otherwise).  After destroy() this.mapServer is null and line 122
\* throws a TypeError.
AfterToBlob(v, c, blobOk) ==
    IF ~blobOk THEN VpsCatch(v, c.id, "failedBlob")
    ELSE IF ~c.view THEN VpsCatch(v, c.id, "failedViewMatrix")
    ELSE IF ~v.mapServer THEN VpsCatch(v, c.id, "failedNoServer")
    ELSE VpsOut([v EXCEPT !.sends = [i \in DOMAIN @ |->
                                        IF @[i].at = c.id
                                           /\ @[i].result = "pending"
                                        THEN [@[i] EXCEPT !.net = TRUE]
                                        ELSE @[i]],
                          !.inflight = (@ \ {c}) \cup
                              {[c EXCEPT !.stage = "localize"]}], "localize")

ToBlobSettles(blobOk) ==
    \E c \in inflight :
        /\ c.stage = "toBlob"
        /\ VpsBecomes(AfterToBlob(VpsCur, c, blobOk))

\* What mapServer.localize settles with: a rejection, or a response (null,
\* or an object) with a pose of some shape and a serverConfidence.  Shapes:
\* none (no pose), rows (an array of arrays), flat16 (16 numbers), other
\* (anything else, an array of another length for one).
PoseShapes == {"none", "rows", "flat16", "other"}
Responses ==
    [rejected : BOOLEAN, isNull : BOOLEAN, pose : PoseShapes,
     serverConfidence : {-1, 0, 1}]

\* The test of line 128.
HasFix(r) == ~r.isNull /\ r.pose # "none" /\ r.serverConfidence > 0

\* A faulty variant of the rest of processImage: a response without a fix
\* is thrown as an error.
AfterLocalizeNoFixThrows(v, c, r, callbackOk) ==
    IF r.rejected THEN VpsCatch(v, c.id, "failedNetwork")
    ELSE IF HasFix(r)
    THEN IF r.pose = "other" THEN VpsCatch(v, c.id, "failedPoseFormat")
         ELSE IF ~options.onPoseUpdate
              THEN VpsFinally(Ended(VpsOut([v EXCEPT !.retryCount = 0],
                                           "fix"), c.id, "ok"), c.id)
         ELSE IF ~callbackOk
              THEN VpsCatch([v EXCEPT !.poseUpdates = 1], c.id,
                            "failedCallback")
         ELSE VpsFinally(Ended(VpsOut([v EXCEPT !.retryCount = 0,
                                                !.poseUpdates = 1],
                                      "fix"), c.id, "ok"), c.id)
    ELSE VpsCatch(v, c.id, "failedNoFix")

\* The rest of processImage once localize has settled (lines 122-172).
\* callbackOk: options.onPoseUpdate returns (it throws otherwise).
AfterLocalize(v, c, r, callbackOk) ==
    IF r.rejected THEN VpsCatch(v, c.id, "failedNetwork")
    ELSE IF HasFix(r)
    THEN IF r.pose = "other" THEN VpsCatch(v, c.id, "failedPoseFormat")
         ELSE IF ~options.onPoseUpdate
              THEN VpsFinally(Ended(VpsOut([v EXCEPT !.retryCount = 0],
                                           "fix"), c.id, "ok"), c.id)
         ELSE IF ~callbackOk
              THEN VpsCatch([v EXCEPT !.poseUpdates = 1], c.id,
                            "failedCallback")
         ELSE VpsFinally(Ended(VpsOut([v EXCEPT !.retryCount = 0,
                                                !.poseUpdates = 1],
                                      "fix"), c.id, "ok"), c.id)
    ELSE VpsFinally(Ended(VpsOut([v EXCEPT !.retryCount = 0], "noFix"),
                          c.id, "ok"), c.id)

\* One response of each kind the code tells apart is enough as an input.
ResponseInputs ==
    {r \in Responses :
        /\ r.rejected => (r.isNull /\ r.pose = "none" /\ r.serverConfidence = 0)
        /\ r.isNull => (r.pose = "none" /\ r.serverConfidence = 0)}

LocalizeSettles(r, callbackOk) ==
    \E c \in inflight :
        /\ c.stage = "localize"
        /\ (callbackOk \/ (~r.rejected /\ HasFix(r) /\ r.pose # "other"
                           /\ options.onPoseUpdate))
        /\ VpsBecomes(AfterLocalize(VpsCur, c, r, callbackOk))

\* setEnabled (lines 204-207)
SetEnabledOp(v, enabled) == VpsOut([v EXCEPT !.isEnabled = enabled], "setEnabled")

VpsSetEnabled(enabled) ==
    /\ enabled # isEnabled
    /\ VpsBecomes(SetEnabledOp(VpsCur, enabled))

\* OpenVPSProcessor.destroy (lines 209-216): a request under way is not
\* cancelled.
VpsDestroyOp(v) ==
    VpsOut([v EXCEPT !.isEnabled = FALSE, !.mapServer = FALSE], "destroyed")

VpsDestroy ==
    /\ mapServer
    /\ VpsBecomes(VpsDestroyOp(VpsCur))

\* Time passes.
ClockAdvances ==
    /\ now - options.interval < MaxTime
    /\ now' = now + 1
    /\ poseUpdates' = 0
    /\ vpsOutcome' = ""
    /\ UNCHANGED <<options, isEnabled, mapServer, isBusy, lastSendTime,
                   retryCount, inflight, sends>>
    /\ UNCHANGED <<pipeVars, helper, armarker, composed>>

\* ----------------------------------------------------- a capture helper
\* The helper classes of the repository: GetUserMediaCaptureHelper as pulled
\* by _onGUMFrame (getusermedia-helper.js 24-259) and as pushing through
\* requestVideoFrameCallback (287-592), WebARViewerCaptureHelper as pulled
\* (774-1022) and as pushing through window.processCV (part_001), and
\* WebXRRawCameraCaptureHelper (webxr-raw-camera-helper.js; part_002 is the
\* variant whose getFrameData takes the pose).
HelperKinds == {"gum-pulled", "gum-pushed", "webar-pulled", "webar-pushed",
                "raw"}
IsGumKind(k) == k \in {"gum-pulled", "gum-pushed"}
PushKinds == {"gum-pushed", "webar-pushed"}

\* After the constructor (BaseCaptureHelper 664-670): isCapturing is false,
\* isStreaming is not set yet, nothing of the host is held but the session
\* the helper was given.  resource: the camera stream and video element, or
\* the XRWebGLBinding and framebuffer; armed: requestVideoFrameCallback
\* requests not yet run; processCV: window.processCV is _handleProcessCV;
\* destroys: the destroy calls of the helper's owner, up to the second.
\* returned, delivered and acquired describe the last call alone.
NewHelper(k) ==
    [kind |-> k, isCapturing |-> FALSE, isStreaming |-> FALSE,
     xrSession |-> ~IsGumKind(k), resource |-> FALSE, paused |-> FALSE,
     videoFrameCallbackHandle |-> FALSE, armed |-> 0, processCV |-> FALSE,
     destroys |-> 0, returned |-> "", delivered |-> 0, acquired |-> FALSE]

\* The helper as a call finds it.
HCur == [helper EXCEPT !.returned = "", !.delivered = 0, !.acquired = FALSE]

\* `super.isStreaming` in a method of a subclass: the property is looked up
\* from BaseCaptureHelper.prototype on, which has no isStreaming (657-750);
\* startStreaming, stopStreaming and destroy set an own property of the
\* instance (715, 726, 735).  The value is undefined whatever h.isStreaming
\* is.
SuperIsStreaming(h) == FALSE

Returns(h, v) == [h EXCEPT !.returned = v]

\* requestVideoFrameCallback(this._onVideoFrame)
Arm(h) == [h EXCEPT !.armed = @ + 1]

\* startStreaming: BaseCaptureHelper's (714-718) sets the flag; the GUM
\* helpers play the video, the pushing one starts its callback loop unless
\* videoFrameCallbackHandle says it runs (516-549); the pushing WebARViewer
\* helper installs window.processCV (part_001 273-291).
HStartStreaming(h) ==
    LET a == [h EXCEPT !.isStreaming = TRUE]
    IN CASE a.kind = "gum-pulled" ->
               IF a.resource THEN [a EXCEPT !.paused = FALSE] ELSE a
         [] a.kind = "gum-pushed" ->
               IF a.isCapturing /\ a.resource
               THEN IF a.videoFrameCallbackHandle
                    THEN [a EXCEPT !.paused = FALSE]
                    ELSE Arm([a EXCEPT !.paused = FALSE,
                                       !.videoFrameCallbackHandle = TRUE])
               ELSE a
         [] a.kind = "webar-pushed" ->
               IF a.isCapturing THEN [a EXCEPT !.processCV = TRUE] ELSE a
         [] OTHER -> a

\* stopStreaming (725-727, 226-232, 551-561, part_001 294-307)
HStopStreaming(h) ==
    LET a == [h EXCEPT !.isStreaming = FALSE]
    IN CASE a.kind = "gum-pulled" ->
               IF a.resource THEN [a EXCEPT !.paused = TRUE] ELSE a
         [] a.kind = "gum-pushed" ->
               [a EXCEPT !.videoFrameCallbackHandle = FALSE,
                         !.paused = IF a.resource THEN TRUE ELSE @]
         [] a.kind = "webar-pushed" -> [a EXCEPT !.processCV = FALSE]
         [] OTHER -> a

\* A faulty variant of getFrameData: the streaming flag is not consulted.
HGetFrameDataUngated(h, hostOk) ==
    IF ~h.isCapturing \/ ~h.resource \/ ~hostOk THEN Returns(h, "null")
    ELSE Returns(h, "frame")

\* getFrameData of the pulled helpers (153-215, 874-997,
\* webxr-raw-camera-helper.js 124-248); hostOk: the host has a frame (the
\* video plays and can be drawn, the view has a camera image).
HGetFrameData(h, hostOk) ==
    IF \/ ~h.isCapturing \/ ~SuperIsStreaming(h)
       \/ (IF h.kind = "webar-pulled" THEN ~h.xrSession ELSE ~h.resource)
       \/ (h.kind = "gum-pulled" /\ h.paused)
    THEN Returns(h, "null")
    ELSE IF hostOk THEN Returns(h, "frame") ELSE Returns(h, "null")

\* The re-arming at lines 430-436, 453-455 and 507-513.
Rearm(h) ==
    IF h.isCapturing /\ SuperIsStreaming(h) /\ h.resource THEN Arm(h) ELSE h

\* _onVideoFrame (422-514); drawOk: drawImage and getImageData succeed.
OnVideoFrame(h, drawOk) ==
    IF \/ ~h.isCapturing \/ ~SuperIsStreaming(h) \/ ~h.resource \/ h.paused
    THEN Rearm(h)
    ELSE IF ~drawOk THEN Rearm(h)
    ELSE Rearm([h EXCEPT !.delivered = 1])

\* _handleProcessCV (part_001 177-268); cvFrame: the host passed a frame
\* that can be converted.
HandleProcessCV(h, cvFrame) ==
    IF ~h.isCapturing \/ ~SuperIsStreaming(h) \/ ~cvFrame THEN h
    ELSE [h EXCEPT !.delivered = 1]

\* BaseCaptureHelper.destroy (733-742)
BaseDestroy(h) ==
    [h EXCEPT !.isCapturing = FALSE, !.isStreaming = FALSE,
              !.xrSession = FALSE,
              !.destroys = IF @ < 2 THEN @ + 1 ELSE @]

\* destroy (234-257, 565-591, 999-1021, part_001 313-328,
\* webxr-raw-camera-helper.js 250-267): what the helper holds is released,
\* then BaseCaptureHelper.destroy.
HDestroy(h) ==
    CASE h.kind = "gum-pulled" ->
            BaseDestroy([h EXCEPT !.isStreaming = FALSE,
                                  !.resource = FALSE])
      [] h.kind = "gum-pushed" ->
            BaseDestroy([h EXCEPT !.resource = FALSE,
                                  !.videoFrameCallbackHandle = FALSE])
      [] h.kind = "webar-pushed" ->
            BaseDestroy(HStopStreaming(h))
      [] OTHER ->
            BaseDestroy([h EXCEPT !.resource = FALSE])

\* init; ok: the host grants what init asks of it (the camera stream and a
\* playing video; XRWebGLBinding and a framebuffer; the camera intrinsics;
\* window.processCV or the WebXRViewer message handler).  A GUM helper whose
\* init fails destroys itself (lines 146-151, 414-419); an initialized one
\* returns true at once; the XR helpers need the session, which destroy
\* lets go of.
HInit(h, ok) ==
    CASE IsGumKind(h.kind) ->
            IF h.isCapturing /\ h.resource THEN Returns(h, "true")
            ELSE IF ok
            THEN Returns([h EXCEPT !.resource = TRUE, !.acquired = TRUE,
                                   !.paused = FALSE, !.isCapturing = TRUE],
                         "true")
            ELSE Returns([HDestroy(h) EXCEPT !.destroys = h.destroys],
                         "false")
      [] h.kind = "raw" ->
            IF h.isCapturing THEN Returns(h, "true")
            ELSE IF ~h.xrSession \/ ~ok THEN Returns(h, "false")
            ELSE Returns([h EXCEPT !.resource = TRUE, !.acquired = TRUE,
                                   !.isCapturing = TRUE], "true")
      [] h.kind = "webar-pulled" ->
            IF h.isCapturing THEN Returns(h, "true")
            ELSE IF ~h.xrSession \/ ~ok THEN Returns(h, "false")
            ELSE Returns([h EXCEPT !.isCapturing = TRUE], "true")
      [] h.kind = "webar-pushed" ->
            IF h.isCapturing THEN Returns(h, "true")
            ELSE IF ~ok THEN Returns(h, "false")
            ELSE Returns([h EXCEPT !.isCapturing = TRUE], "true")

HBecomes(h) ==
    /\ helper' = h
    /\ UNCHANGED <<pipeVars, vpsVars, armarker, composed>>

\* The owner of the helper calls it, the host runs its callbacks.
HelperInit(ok) ==
    /\ ok \in BOOLEAN
    /\ HBecomes(HInit(HCur, ok))

HelperStarts ==
    /\ HStartStreaming(HCur).armed <= MaxArmed
    /\ HBecomes(HStartStreaming(HCur))

HelperStops ==
    /\ helper.kind \in HelperKinds
    /\ HBecomes(HStopStreaming(HCur))

HelperGetFrameData(hostOk) ==
    /\ helper.kind \notin PushKinds
    /\ HBecomes(HGetFrameData(HCur, hostOk))

VideoFrameCallback(drawOk) ==
    /\ helper.kind = "gum-pushed"
    /\ helper.armed > 0
    /\ HBecomes(OnVideoFrame([HCur EXCEPT !.armed = @ - 1], drawOk))

ProcessCV(cvFrame) ==
    /\ helper.kind = "webar-pushed"
    /\ helper.processCV
    /\ HBecomes(HandleProcessCV(HCur, cvFrame))

HelperDestroys ==
    /\ helper.destroys \in 0..2
    /\ HBecomes(HDestroy(HCur))

\* ------------------------------------------- the frame a helper composes
\* What a helper does behind its streaming gate, as a function of the
\* host's sample: the matrices and the timestamp of frame.metadata.
\* A THREE.Matrix4 is the tuple of its four rows of four integers.
Identity4 == <<<<1, 0, 0, 0>>, <<0, 1, 0, 0>>, <<0, 0, 1, 0>>, <<0, 0, 0, 1>>>>
Zero4 == <<<<0, 0, 0, 0>>, <<0, 0, 0, 0>>, <<0, 0, 0, 0>>, <<0, 0, 0, 0>>>>

\* Matrix4.multiplyMatrices(a, b)
MultiplyMatrices(a, b) ==
    [i \in 1..4 |-> [j \in 1..4 |->
        a[i][1] * b[1][j] + a[i][2] * b[2][j]
            + a[i][3] * b[3][j] + a[i][4] * b[4][j]]]

Minor(m, i, j) ==
    [r \in 1..(Len(m) - 1) |-> [c \in 1..(Len(m) - 1) |->
        m[IF r < i THEN r ELSE r + 1][IF c < j THEN c ELSE c + 1]]]

Sign(k) == IF k % 2 = 0 THEN 1 ELSE 0 - 1

RECURSIVE Determinant(_)
RECURSIVE ExpandRow(_, _)
ExpandRow(m, j) ==
    IF j > Len(m) THEN 0
    ELSE Sign(1 + j) * m[1][j] * Determinant(Minor(m, 1, j))
            + ExpandRow(m, j + 1)
Determinant(m) == IF Len(m) = 1 THEN m[1][1] ELSE ExpandRow(m, 1)

\* Matrix4.invert(): the adjugate over the determinant, the zero matrix when
\* the determinant is 0.  Exact on the matrices used here, whose
\* determinant is 1 or 0.
Invert(m) ==
    LET det == Determinant(m)
    IN IF det = 0 THEN Zero4
       ELSE [i \in 1..4 |-> [j \in 1..4 |->
                (Sign(i + j) * Determinant(Minor(m, j, i))) \div det]]

\* a || b on numbers: 0 stands for a field that is absent or 0.
OrElse(a, b) == IF a # 0 THEN a ELSE b

\* The test of lines 220-221: no element is a number of magnitude above 1e-6.
NoUsableElement(m) == \A i \in 1..4, j \in 1..4 : m[i][j] = 0

NoCamera == <<>>

Metadata(timestamp, worldPose, viewTransformMatrix) ==
    [timestamp |-> timestamp, worldPose |-> worldPose,
     viewTransformMatrix |-> viewTransformMatrix]

\* WebXRRawCameraCaptureHelper.getFrameData, lines 213-243 (part_002 200-230);
\* camera: aframeCameraEl.object3D.matrixWorld, NoCamera without the element.
RawMetadata(time, viewerMatrix, viewMatrix, camera) ==
    LET worldPose == MultiplyMatrices(viewerMatrix, viewMatrix)
    IN IF NoUsableElement(worldPose) /\ camera # NoCamera
       THEN Metadata(time, camera, Invert(camera))
       ELSE Metadata(time, worldPose, viewMatrix)

\* The matrices of the GUM helpers (176-191, 463-478).
GumMatrices(timestamp, camera) ==
    IF camera # NoCamera THEN Metadata(timestamp, camera, Invert(camera))
    ELSE Metadata(timestamp, Identity4, Identity4)

\* GetUserMediaCaptureHelper.getFrameData as pulled (176-212)
GumPulledMetadata(time, camera) == GumMatrices(time, camera)

\* GetUserMediaCaptureHelper._onVideoFrame (459-499)
GumPushedMetadata(now_, captureTime, presentedFrames, camera) ==
    GumMatrices(OrElse(captureTime, OrElse(presentedFrames, now_)), camera)

\* WebARViewerCaptureHelper.getFrameData (967-996)
WebARPulledMetadata(time, cvTimestamp, cameraViewMatrix) ==
    Metadata(OrElse(cvTimestamp, time), Invert(cameraViewMatrix),
             cameraViewMatrix)

\* WebARViewerCaptureHelper._handleProcessCV (part_001 239-266)
WebARPushedMetadata(performanceNow, timestamp, cameraViewMatrix) ==
    Metadata(OrElse(timestamp, performanceNow), Invert(cameraViewMatrix),
             cameraViewMatrix)

\* The poses a host reports: the identity, a step along x, a quarter turn
\* about y, and the turn after the step.
StepX == <<<<1, 0, 0, 1>>, <<0, 1, 0, 0>>, <<0, 0, 1, 0>>, <<0, 0, 0, 1>>>>
TurnY == <<<<0, 0, 1, 0>>, <<0, 1, 0, 0>>, <<0 - 1, 0, 0, 0>>, <<0, 0, 0, 1>>>>
Poses == {Identity4, StepX, TurnY, MultiplyMatrices(StepX, TurnY)}

\* The host's clocks: now is performance.now() and the time a frame callback
\* is given; captureTime and presentedFrames are the fields of the
\* VideoFrameMetadata, cvTimestamp the timestamp of the WebXRViewer's frame.
\* Each of them never runs backwards, and a frame is captured before its
\* callback runs.
\* Before the first frame: no frame has timestamp 0.
NoMetadata == Metadata(0, Zero4, Zero4)

NewComposed(k) ==
    [kind |-> k,
     host |-> [now |-> 1, captureTime |-> 1, presentedFrames |-> 0,
               cvTimestamp |-> 1],
     metadata |-> NoMetadata, previous |-> 0]

HostAdvances(h, n, ct, cv) ==
    [h EXCEPT !.now = n, !.captureTime = ct, !.presentedFrames = @ + 1,
              !.cvTimestamp = cv]

\* The helper composes the metadata md from the sample taken at host.
Composes(host, md) ==
    /\ composed' = [composed EXCEPT
           !.host = host, !.metadata = md,
           !.previous = composed.metadata.timestamp]
    /\ UNCHANGED <<pipeVars, vpsVars, helper, armarker>>

\* The host's next sample: the clocks move on.
NextSample(n, ct, cv) ==
    /\ n \in (composed.host.now + 1)..MaxNow
    /\ ct \in composed.host.captureTime..n
    /\ cv \in composed.host.cvTimestamp..MaxNow

\* The host calls the helper with a sample; it says which of the optional
\* time fields the sample carries.
ComposeRaw(viewerMatrix, viewMatrix, camera) ==
    /\ composed.kind = "raw"
    /\ viewerMatrix = Zero4 => camera # NoCamera
    /\ \E n \in 1..MaxNow :
          /\ NextSample(n, composed.host.captureTime, composed.host.cvTimestamp)
          /\ Composes(HostAdvances(composed.host, n, composed.host.captureTime,
                                   composed.host.cvTimestamp),
                      RawMetadata(n, viewerMatrix, viewMatrix, camera))

ComposeGumPulled(camera) ==
    /\ composed.kind = "gum-pulled"
    /\ \E n \in 1..MaxNow :
          /\ NextSample(n, composed.host.captureTime, composed.host.cvTimestamp)
          /\ Composes(HostAdvances(composed.host, n, composed.host.captureTime,
                                   composed.host.cvTimestamp),
                      GumPulledMetadata(n, camera))

ComposeGumPushed(camera, hasCaptureTime, hasPresentedFrames) ==
    /\ composed.kind = "gum-pushed"
    /\ \E n \in 1..MaxNow, ct \in 1..MaxNow :
          /\ NextSample(n, ct, composed.host.cvTimestamp)
          /\ Composes(HostAdvances(composed.host, n, ct,
                                   composed.host.cvTimestamp),
                      GumPushedMetadata(
                          n, IF hasCaptureTime THEN ct ELSE 0,
                          IF hasPresentedFrames
                          THEN composed.host.presentedFrames + 1 ELSE 0,
                          camera))

ComposeWebARPulled(cameraViewMatrix, hasTimestamp) ==
    /\ composed.kind = "webar-pulled"
    /\ \E n \in 1..MaxNow, cv \in 1..MaxNow :
          /\ NextSample(n, composed.host.captureTime, cv)
          /\ Composes(HostAdvances(composed.host, n,
                                   composed.host.captureTime, cv),
                      WebARPulledMetadata(
                          n, IF hasTimestamp THEN cv ELSE 0, cameraViewMatrix))

ComposeWebARPushed(cameraViewMatrix, hasTimestamp) ==
    /\ composed.kind = "webar-pushed"
    /\ \E n \in 1..MaxNow, cv \in 1..MaxNow :
          /\ NextSample(n, composed.host.captureTime, cv)
          /\ Composes(HostAdvances(composed.host, n,
                                   composed.host.captureTime, cv),
                      WebARPushedMetadata(
                          n, IF hasTimestamp THEN cv ELSE 0, cameraViewMatrix))

\* ------------------------------------------- ARMarker system: processors
\* The CameraImageProvider instances the scene may announce.
Providers == {1, 2}

\* The system's processor fields as init leaves them (lines 40-62, 64-75):
\* no provider, no processors, both scene listeners attached.  0 stands for
\* null.  Next to the fields: the processor objects constructed so far
\* (created), those whose destroy has not been called (live: an
\* AprilTagProcessor keeps its worker until then), and what each provider
\* holds in its registry (registered).
Processor(kind, n) == [kind |-> kind, n |-> n]
NewCv ==
    [provider |-> 0, aprilTagProcessor |-> 0, openVPSProcessor |-> 0,
     created |-> 0, live |-> {}, registered |-> {}, listening |-> TRUE]

\* provider.registerProcessor / unregisterProcessor as the system sees them
\* (cameraImageProvider.js 570-604): the registry is a Set.
CvRegister(v, x) == [v EXCEPT !.registered = @ \cup {<<v.provider, x>>}]
CvUnregister(v, x) == [v EXCEPT !.registered = @ \ {<<v.provider, x>>}]

\* _onProviderFailed (lines 141-144)
OnProviderFailed(v) == [v EXCEPT !.provider = 0]

\* _initializeProcessors (lines 146-226).  openvps: the scene has an openvps
\* component that is enabled and names an imageUrl (line 203).
InitializeProcessors(v, openvps) ==
    IF v.provider = 0 THEN v
    ELSE LET n == v.created + 1
             tag == Processor("apriltag", n)
             vps == Processor("openvps", n)
             a == CvRegister([v EXCEPT !.created = n,
                                       !.aprilTagProcessor = n,
                                       !.live = @ \cup {tag}], tag)
         IN IF openvps
            THEN CvRegister([a EXCEPT !.openVPSProcessor = n,
                                      !.live = @ \cup {vps}], vps)
            ELSE a

\* _onProviderInitialized (lines 127-139); p = 0: the event carries no
\* provider.
OnProviderInitialized(v, p, openvps) ==
    IF v.provider # 0 THEN v
    ELSE IF p # 0 THEN InitializeProcessors([v EXCEPT !.provider = p], openvps)
    ELSE OnProviderFailed(v)

\* remove (lines 490-521)
CvRemove(v) ==
    LET a == IF v.provider # 0 /\ v.aprilTagProcessor # 0
             THEN CvUnregister(v, Processor("apriltag", v.aprilTagProcessor))
             ELSE v
        b == IF a.provider # 0 /\ a.openVPSProcessor # 0
             THEN CvUnregister(a, Processor("openvps", a.openVPSProcessor))
             ELSE a
    IN [b EXCEPT !.live = @ \ {Processor("apriltag", b.aprilTagProcessor),
                               Processor("openvps", b.openVPSProcessor)},
                 !.aprilTagProcessor = 0, !.openVPSProcessor = 0,
                 !.provider = 0, !.listening = FALSE]

CvBecomes(v) ==
    /\ armarker' = [armarker EXCEPT !.cv = v, !.outcome = ""]
    /\ UNCHANGED <<pipeVars, vpsVars, helper, composed>>

\* The scene emits camera-provider-initialized (or ready finds the provider
\* there already, lines 121-123).
ProviderInitialized(p, openvps) ==
    /\ armarker.cv.listening
    /\ armarker.cv.created < MaxProcessors
    /\ CvBecomes(OnProviderInitialized(armarker.cv, p, openvps))

\* The scene emits camera-provider-failed.
ProviderFailed ==
    /\ armarker.cv.listening
    /\ CvBecomes(OnProviderFailed(armarker.cv))

\* The system is removed from the scene.
Remove ==
    /\ armarker.cv.listening
    /\ CvBecomes(CvRemove(armarker.cv))

\* ---------------------------------------------------- the ARMarker system
\* The system as a record of its fields, with the two stores of the host it
\* uses: the session's persistent anchors (handles in the order the
\* platform lists them, oldest first) and the 'originAnchor' item of
\* localStorage (0 when absent).  Handles are numbered as they are issued.
MAX_PERSISTENT_ANCHORS == 7

\* setOriginAnchor calls whose promise chain has not ended.
AnchorCalls == {1, 2}

NoCall == [pc |-> "idle", target |-> 0, startLen |-> 0, startOldest |-> 0,
           evicted |-> <<>>]

NewArmarker(store, key, session, persistent) ==
    [webXRSession |-> session, xrRefSpace |-> session,
     persistent |-> persistent,
     persistentAnchors |-> store, originAnchorKey |-> key,
     originAnchor |-> FALSE, nextHandle |-> Len(store) + 1,
     firstHandle |-> Len(store) + 1,
     call |-> [c \in AnchorCalls |-> NoCall], overlapped |-> FALSE,
     cv |-> NewCv, outcome |-> ""]

ACur == [armarker EXCEPT !.outcome = ""]

InStore(a, h) == \E i \in 1..Len(a.persistentAnchors) : a.persistentAnchors[i] = h
InProgress(a) == {c \in AnchorCalls : a.call[c].pc # "idle"}

\* Lines 482-483 and the end of the promise chain.
EndCall(a, c, how) ==
    [a EXCEPT !.originAnchor = TRUE, !.call[c] = NoCall, !.outcome = how]

\* await this.webXRSession.deletePersistentAnchor(h) inside try/catch
\* (462-463, 468-469): the platform forgets the handle, or rejects when it
\* does not know it, which is caught.
DeletePersistentAnchor(a, c, h) ==
    IF InStore(a, h)
    THEN [a EXCEPT !.persistentAnchors = SelectSeq(@, LAMBDA x : x # h),
                   !.call[c].evicted = Append(@, h)]
    ELSE a

\* Lines 471-477 up to the await of requestPersistentHandle.
RequestHandle(a, c) == [a EXCEPT !.call[c].pc = "requesting"]

\* Lines 465-470 up to the next await.
CheckCapacity(a, c) ==
    IF Len(a.persistentAnchors) >= MAX_PERSISTENT_ANCHORS
    THEN [a EXCEPT !.call[c].pc = "deletingOldest",
                   !.call[c].target = a.persistentAnchors[1]]
    ELSE RequestHandle(a, c)

\* The then-callback of createAnchor up to its first await (458-464), or the
\* branch of a session without persistent anchors (479-483).
AnchorCreatedOp(a, c) ==
    LET b == [a EXCEPT !.call[c].startLen = Len(a.persistentAnchors),
                       !.call[c].startOldest =
                           IF a.persistentAnchors = <<>> THEN 0
                           ELSE a.persistentAnchors[1]]
    IN IF ~a.persistent THEN EndCall(a, c, "anchored")
       ELSE IF a.originAnchorKey # 0
       THEN [b EXCEPT !.call[c].pc = "deletingOld",
                      !.call[c].target = a.originAnchorKey]
       ELSE CheckCapacity(b, c)

\* The continuation after an awaited delete settled.
DeleteSettlesOp(a, c) ==
    LET b == DeletePersistentAnchor(a, c, a.call[c].target)
    IN IF a.call[c].pc = "deletingOld" THEN CheckCapacity(b, c)
       ELSE RequestHandle(b, c)

\* The continuation after requestPersistentHandle settled (473-477, 482-483).
HandleSettlesOp(a, c, ok) ==
    IF ok
    THEN EndCall([a EXCEPT !.persistentAnchors = Append(@, a.nextHandle),
                           !.originAnchorKey = a.nextHandle,
                           !.nextHandle = @ + 1], c, "persisted")
    ELSE EndCall(a, c, "notPersisted")

\* setOriginAnchor (450-488) up to the call of createAnchor.
SetOriginAnchorOp(a, c, hasFrame) ==
    IF ~a.webXRSession \/ ~a.xrRefSpace THEN [a EXCEPT !.outcome = "noSession"]
    ELSE IF ~hasFrame THEN [a EXCEPT !.outcome = "noFrame"]
    ELSE [a EXCEPT !.call[c].pc = "creating",
                   !.overlapped = @ \/ InProgress(a) # {},
                   !.outcome = "creating"]

ABecomes(a) ==
    /\ armarker' = a
    /\ UNCHANGED <<pipeVars, vpsVars, helper, composed>>

\* A caller (the relocalizer, _handleOpenVPSPoseUpdate at 249) sets the
\* origin anchor.
SetOriginAnchor(c, hasFrame) ==
    /\ armarker.call[c].pc = "idle"
    /\ armarker.nextHandle + Cardinality(InProgress(armarker)) <= MaxAnchors
    /\ ABecomes(SetOriginAnchorOp(ACur, c, hasFrame))

\* xrFrame.createAnchor settles: the then-callback (457) or the catch (485).
AnchorCreated(c, ok) ==
    /\ armarker.call[c].pc = "creating"
    /\ ABecomes(IF ok THEN AnchorCreatedOp(ACur, c)
                ELSE [ACur EXCEPT !.call[c] = NoCall,
                                  !.outcome = "createFailed"])

DeleteSettles(c) ==
    /\ armarker.call[c].pc \in {"deletingOld", "deletingOldest"}
    /\ ABecomes(DeleteSettlesOp(ACur, c))

HandleSettles(c, ok) ==
    /\ armarker.call[c].pc = "requesting"
    /\ ABecomes(HandleSettlesOp(ACur, c, ok))

\* ------------------------------------------------- the provider's life
Platforms ==
    [gl : BOOLEAN, webar : BOOLEAN, xrBinding : BOOLEAN, headset : BOOLEAN,
     gum : BOOLEAN]

\* The fields the constructor sets (lines 412-430); next to it an
\* AprilTagProcessor as its constructor leaves it (part_000 26-33): INIT is
\* on its way to the worker.
Msg(type) ==
    [type |-> type, markerid |-> <<>>, size |-> <<0, 1>>, frame |-> 0,
     width |-> 0, height |-> 0, cameraIntrinsics |-> FALSE,
     frameTimestamp |-> 0, grayscale |-> NULL]

Constructed(xs, xr) ==
    [processors |-> {}, activeApiName |-> NULL, captureHelper |-> NULL,
     isCapturing |-> FALSE, isPipelineBusy |-> FALSE, xrSession |-> xs,
     xrRefSpace |-> xr, detectPc |-> "start",
     initLog |-> [c \in CandidateSet |-> "untried"], destroyed |-> FALSE,
     isStreaming |-> FALSE, rafPending |-> [cb \in TickHandlers |-> 0],
     awaiting |-> [cb \in TickHandlers |-> 0], rounds |-> {}, frames |-> 0,
     calls |-> <<>>, invoked |-> NoInvocation, outcome |-> "",
     events |-> <<>>,
     cvWorkerReady |-> FALSE, knownMarkers |-> <<>>,
     posted |-> <<Msg("INIT")>>, workerRead |-> 0, workerMarkers |-> {},
     fromWorker |-> <<>>]

\* After `new CameraImageProvider(...)` on one of the platforms ps: the
\* constructor has called _detectAndInitializeApi, which ran to its first
\* await.
Constructs(ps) ==
    /\ rev \in {1, 2}
    /\ platform \in ps
    /\ \E xs \in BOOLEAN, xr \in BOOLEAN :
          IsState(DetectWebAR(Constructed(xs, xr)))
    /\ VpsConstructed(BaseOptions, TRUE)
    /\ helper = NewHelper("raw")
    /\ armarker = NewArmarker(<<>>, 0, TRUE, TRUE)
    /\ composed = NewComposed("raw")

\* The platforms of Spec: everything but the host-session vision API is
\* there, so that each candidate can be the one that is adopted.
PipelinePlatforms ==
    {pf \in Platforms : pf.gl /\ pf.xrBinding /\ pf.headset /\ pf.gum}

Init == Constructs(PipelinePlatforms)

InitDetect == Constructs(Platforms)

Detection ==
    \/ \E c \in CandidateSet, ok \in BOOLEAN : InitSettles(c, ok)
    \/ \E c \in CandidateSet : InitRejects(c)
    \/ \E p \in Procs \cup {NotAProcessor} : RegisterProcessor(p)
    \/ \E p \in Procs : UnregisterProcessor(p)
    \/ Destroy

FrameLoops ==
    \/ \E cb \in TickHandlers, pose \in BOOLEAN : Tick(cb, pose)
    \/ \E cb \in TickHandlers, res \in FrameResults, defer \in SUBSET Procs :
          GetFrameDataSettles(cb, res, defer)
    \/ \E kind \in {"frame"} \cup BadKinds, defer \in SUBSET Procs :
          DistributeFrameData(kind, defer)
    \/ \E id \in 1..MaxFrames, p \in Procs, ok \in BOOLEAN :
          ProcessorSettles(id, p, ok)

Next == Detection \/ FrameLoops

Spec == Init /\ [][Next]_vars

SpecDetect == InitDetect /\ [][Detection]_vars

\* The pipeline with processors that may break the processImage contract.
\* Every promise a processor did return settles: WF on the settling.
FaultyProcessors ==
    \/ \E before \in SUBSET Procs, thrower \in Procs, fault \in Faults :
          ProcessorFaultsOnPush(before, thrower, fault)
    \/ \E cb \in TickHandlers, before \in SUBSET Procs, thrower \in Procs,
          fault \in Faults :
          ProcessorFaultsOnTick(cb, before, thrower, fault)

Settling ==
    \E id \in 1..MaxFrames, p \in Procs, ok \in BOOLEAN :
       ProcessorSettles(id, p, ok)

NextFaulty == Next \/ FaultyProcessors

SpecFaulty == Init /\ [][NextFaulty]_vars /\ WF_vars(Settling)

\* The pipeline with room for a second outstanding tick request.
NextLoops ==
    \/ Next
    \/ \E p \in Procs : RegisterProcessorWhileTickPending(p)

SpecLoops == Init /\ [][NextLoops]_vars


\* ------------------------------------------------- AprilTagProcessor
PostMessage(s, m) == [s EXCEPT !.posted = Append(@, m)]

PostFrame(s, frame, how) ==
    PostMessage(Fate(s, frame, "posted"),
                [Msg("PROCESS_GSFRAME") EXCEPT
                    !.frame = frame.id, !.width = frame.width,
                    !.height = frame.height,
                    !.cameraIntrinsics = frame.cameraIntrinsics,
                    !.frameTimestamp = frame.timestamp,
                    !.grayscale = how])

\* A faulty variant of processImage: no cvWorkerReady check.
TagProcessImageNoReadyCheck(s, frame, canvasOk) ==
    IF ~frame.imageData \/ ~(frame.buffer \/ frame.canvas)
    THEN Fate(s, frame, "skippedNoImage")
    ELSE IF ~frame.cameraIntrinsics THEN Fate(s, frame, "skippedNoIntrinsics")
    ELSE IF frame.canvas /\ frame.format = "RGBA" /\ canvasOk
         THEN PostFrame(s, frame, "canvas")
    ELSE PostFrame(s, frame, "software")

\* AprilTagProcessor.processImage (part_000 67-137).  canvasOk: whether the
\* canvas grayscale filter works on this platform (it throws otherwise).
\* The function is async and awaits nothing: its promise is resolved when
\* it returns.
TagProcessImage(s, frame, canvasOk) ==
    IF ~s.cvWorkerReady THEN Fate(s, frame, "skippedNotReady")
    ELSE IF ~frame.imageData \/ ~(frame.buffer \/ frame.canvas)
         THEN Fate(s, frame, "skippedNoImage")
    ELSE IF ~frame.cameraIntrinsics THEN Fate(s, frame, "skippedNoIntrinsics")
    ELSE IF frame.canvas /\ frame.format = "RGBA"
         THEN IF canvasOk THEN PostFrame(s, frame, "canvas")
              ELSE IF ~frame.buffer THEN Fate(s, frame, "skippedNoBuffer")
              ELSE PostFrame(s, frame, "software")
    ELSE IF frame.buffer /\ frame.format = "RGBA"
         THEN PostFrame(s, frame, "software")
    ELSE Fate(s, frame, "skippedFormat")

\* Whether the handler that ran has posted no more than the model keeps
\* track of.
PostedRoom == Len(posted') <= MaxPosted

\* A provider round calls processImage with a frame of capture source c.
ProcessImage(c, canvasOk) ==
    /\ frames < MaxFrames
    /\ Becomes(TagProcessImage(Cur, FrameOf(c, frames + 1), canvasOk))
    /\ PostedRoom

\* ------------------------------------------ AprilTagProcessor: markers
\* knownMarkers is a Map: a sequence of [id, size] entries in insertion
\* order, one per key.
MapHas(m, id) == \E i \in 1..Len(m) : m[i].id = id
MapSet(m, id, size) ==
    IF MapHas(m, id)
    THEN [i \in 1..Len(m) |-> IF m[i].id = id THEN [id |-> id, size |-> size]
                              ELSE m[i]]
    ELSE Append(m, [id |-> id, size |-> size])
MapDelete(m, id) == SelectSeq(m, LAMBDA e : e.id # id)
MapEntries(m) == {m[i] : i \in 1..Len(m)}

\* JavaScript values a caller passes: a number, or a string given as the
\* sequence of its characters.
Number(n) == [isNumber |-> TRUE, num |-> n, str |-> <<>>]
Text(chars) == [isNumber |-> FALSE, num |-> 0, str |-> chars]

DigitChars == <<"0", "1", "2", "3", "4", "5", "6", "7", "8", "9">>
IsDigit(ch) == \E d \in 1..10 : DigitChars[d] = ch
DigitValue(ch) == (CHOOSE d \in 1..10 : DigitChars[d] = ch) - 1

\* The decimal digits of a natural number.
RECURSIVE Digits(_)
Digits(n) ==
    IF n < 10 THEN <<DigitChars[n + 1]>>
    ELSE Append(Digits(n \div 10), DigitChars[(n % 10) + 1])

\* String(markerId), as a sequence of characters
String(v) ==
    IF ~v.isNumber THEN v.str
    ELSE IF v.num < 0 THEN <<"-">> \o Digits(0 - v.num)
    ELSE Digits(v.num)

\* The value of the longest prefix of chars that is a decimal integer.
RECURSIVE DigitsPrefix(_, _)
DigitsPrefix(chars, acc) ==
    IF chars = <<>> \/ ~IsDigit(Head(chars)) THEN acc
    ELSE DigitsPrefix(Tail(chars), acc * 10 + DigitValue(Head(chars)))

\* parseFloat(sizeInMillimeters) on integers and their spellings: NaN when
\* the text does not start with a number.
ParseFloat(v) ==
    IF v.isNumber THEN [nan |-> FALSE, value |-> v.num]
    ELSE LET neg == v.str # <<>> /\ Head(v.str) = "-"
             body == IF neg THEN Tail(v.str) ELSE v.str
         IN IF body = <<>> \/ ~IsDigit(Head(body))
            THEN [nan |-> TRUE, value |-> 0]
            ELSE [nan |-> FALSE,
                  value |-> IF neg THEN 0 - DigitsPrefix(body, 0)
                            ELSE DigitsPrefix(body, 0)]

\* x / 1000.0, kept exact as the pair <<numerator, denominator>>
ToMeters(x) == <<x, 1000>>

\* _sendMarkerToWorker (part_000 170-181)
SendMarkerToWorker(s, id, size) ==
    IF ~s.cvWorkerReady THEN s
    ELSE PostMessage(s, [Msg("KNOWN_MARKER_ADD") EXCEPT
                            !.markerid = id, !.size = size])

\* A faulty variant of addKnownMarker: the map is written before the size
\* is tested, so a rejected size replaces the entry of its id.
AddKnownMarkerSetsFirst(s, markerId, sizeInMillimeters) ==
    LET markerIdStr == String(markerId)
        parsed == ParseFloat(sizeInMillimeters)
        sizeInMeters == ToMeters(parsed.value)
        a == [s EXCEPT !.knownMarkers = MapSet(@, markerIdStr, sizeInMeters),
                       !.outcome = "markerSet"]
    IN IF parsed.nan \/ sizeInMeters[1] <= 0
       THEN [a EXCEPT !.outcome = "markerRejected"]
       ELSE IF a.cvWorkerReady
            THEN SendMarkerToWorker(a, markerIdStr, sizeInMeters) ELSE a

\* addKnownMarker (part_000 183-198)
AddKnownMarkerOp(s, markerId, sizeInMillimeters) ==
    LET markerIdStr == String(markerId)
        parsed == ParseFloat(sizeInMillimeters)
        sizeInMeters == ToMeters(parsed.value)
    IN IF parsed.nan \/ sizeInMeters[1] <= 0
       THEN [s EXCEPT !.outcome = "markerRejected"]
       ELSE LET a == [s EXCEPT !.knownMarkers =
                                   MapSet(@, markerIdStr, sizeInMeters),
                               !.outcome = "markerSet"]
            IN IF a.cvWorkerReady
               THEN SendMarkerToWorker(a, markerIdStr, sizeInMeters) ELSE a

AddKnownMarker(markerId, sizeInMillimeters) ==
    /\ Becomes(AddKnownMarkerOp(Cur, markerId, sizeInMillimeters))
    /\ PostedRoom

\* A faulty variant of removeKnownMarker: the map entry goes and the worker
\* is not told.
RemoveKnownMarkerSilently(s, markerId) ==
    [s EXCEPT !.knownMarkers = MapDelete(@, String(markerId)),
              !.outcome = "markerRemoved"]

\* removeKnownMarker (part_000 200-210)
RemoveKnownMarkerOp(s, markerId) ==
    LET markerIdStr == String(markerId)
        a == [s EXCEPT !.knownMarkers = MapDelete(@, markerIdStr),
                       !.outcome = "markerRemoved"]
    IN IF a.cvWorkerReady
       THEN PostMessage(a, [Msg("KNOWN_MARKER_DEL") EXCEPT
                               !.markerid = markerIdStr])
       ELSE a

RemoveKnownMarker(markerId) ==
    /\ Becomes(RemoveKnownMarkerOp(Cur, markerId))
    /\ PostedRoom

\* ---------------------------------- AprilTagProcessor: worker messages
\* knownMarkers.forEach((size, id) => this._sendMarkerToWorker(id, size))
RECURSIVE ReplayMarkers(_, _)
ReplayMarkers(s, m) ==
    IF m = <<>> THEN s
    ELSE ReplayMarkers(SendMarkerToWorker(s, Head(m).id, Head(m).size), Tail(m))

\* A message of the worker to the processor.
WorkerMsg(type, ts, detections) ==
    [type |-> type, ts |-> ts, detections |-> detections]

\* The 'armarker-detection' event of a FRAME_RESULTS message: detections || []
DetectionEvent(m) ==
    [detections |-> IF m.detections = "absent" THEN "empty" ELSE m.detections,
     ts |-> m.ts]

\* A faulty variant of _handleCvWorkerMessage: a FRAME_RESULTS message
\* without detections is dropped instead of re-broadcast as an empty list.
HandleCvWorkerMessageSkipsAbsent(s, m) ==
    CASE m.type = "FRAME_RESULTS" ->
            IF m.detections = "absent" THEN [s EXCEPT !.outcome = m.type]
            ELSE [s EXCEPT !.events = Append(@, DetectionEvent(m)),
                           !.outcome = m.type]
      [] m.type = "INIT_DONE" ->
            ReplayMarkers([s EXCEPT !.cvWorkerReady = TRUE,
                                    !.outcome = m.type], s.knownMarkers)
      [] OTHER -> [s EXCEPT !.outcome = m.type]

\* A faulty variant of _handleCvWorkerMessage: INIT_DONE sets the flag and
\* the buffered markers are not replayed.
HandleCvWorkerMessageNoReplay(s, m) ==
    CASE m.type = "FRAME_RESULTS" ->
            [s EXCEPT !.events = Append(@, DetectionEvent(m)),
                      !.outcome = m.type]
      [] m.type = "INIT_DONE" ->
            [s EXCEPT !.cvWorkerReady = TRUE, !.outcome = m.type]
      [] OTHER -> [s EXCEPT !.outcome = m.type]

\* _handleCvWorkerMessage (part_000 139-168)
HandleCvWorkerMessageOp(s, m) ==
    CASE m.type = "FRAME_RESULTS" ->
            [s EXCEPT !.events = Append(@, DetectionEvent(m)),
                      !.outcome = m.type]
      [] m.type = "INIT_DONE" ->
            ReplayMarkers([s EXCEPT !.cvWorkerReady = TRUE,
                                    !.outcome = m.type], s.knownMarkers)
      [] OTHER -> [s EXCEPT !.outcome = m.type]

\* The message event of the oldest worker message not yet handled.
HandleCvWorkerMessage ==
    /\ fromWorker # <<>>
    /\ Becomes(HandleCvWorkerMessageOp([Cur EXCEPT !.fromWorker = Tail(@)],
                                       Head(fromWorker)))
    /\ PostedRoom

\* ------------------------------------------------- the detection worker
\* The worker (dist/apriltag.js) is not among the sources: it is modelled by
\* its message protocol.  It takes the posted messages in order; it answers
\* INIT with INIT_DONE and a frame with FRAME_RESULTS or ERROR, and keeps
\* its marker sizes by id.
WorkerReplies(m) ==
    CASE m.type = "INIT" -> {WorkerMsg("INIT_DONE", 0, "absent")}
      [] m.type = "PROCESS_GSFRAME" ->
            {WorkerMsg("FRAME_RESULTS", m.frameTimestamp, d) :
                 d \in {"absent", "empty", "some"}}
                \cup {WorkerMsg("ERROR", 0, "absent")}
      [] OTHER -> {}

WorkerApply(wm, m) ==
    CASE m.type = "KNOWN_MARKER_ADD" ->
            {e \in wm : e.id # m.markerid}
                \cup {[id |-> m.markerid, size |-> m.size]}
      [] m.type = "KNOWN_MARKER_DEL" -> {e \in wm : e.id # m.markerid}
      [] OTHER -> wm

WorkerStep(s, m, replies) ==
    [s EXCEPT !.workerRead = @ + 1,
              !.workerMarkers = WorkerApply(@, m),
              !.fromWorker = @ \o replies]

WorkerProcesses ==
    /\ workerRead < Len(posted)
    /\ LET m == posted[workerRead + 1]
       IN \/ /\ WorkerReplies(m) = {}
             /\ Becomes(WorkerStep(Cur, m, <<>>))
          \/ \E reply \in WorkerReplies(m) :
                Becomes(WorkerStep(Cur, m, <<reply>>))

\* ------------------------------------------- the processor's life
\* What callers pass to addKnownMarker / removeKnownMarker.
MarkerIdInputs == {Number(7), Text(<<"7">>), Number(12)}
SizeInputs == {Number(100), Text(<<"1", "5", "0">>), Number(0), Number(0 - 5),
               Text(<<"a", "b", "c">>)}

\* A processor next to a provider that stays as constructed.
InitTag ==
    /\ rev = 2
    /\ platform = [gl |-> TRUE, webar |-> TRUE, xrBinding |-> TRUE,
                   headset |-> TRUE, gum |-> TRUE]
    /\ IsState(DetectWebAR(Constructed(TRUE, TRUE)))
    /\ VpsConstructed(BaseOptions, TRUE)
    /\ helper = NewHelper("raw")
    /\ armarker = NewArmarker(<<>>, 0, TRUE, TRUE)
    /\ composed = NewComposed("raw")

NextTag ==
    \/ \E c \in CandidateSet, canvasOk \in BOOLEAN : ProcessImage(c, canvasOk)
    \/ \E id \in MarkerIdInputs, mm \in SizeInputs : AddKnownMarker(id, mm)
    \/ \E id \in MarkerIdInputs : RemoveKnownMarker(id)
    \/ HandleCvWorkerMessage
    \/ WorkerProcesses

SpecTag == InitTag /\ [][NextTag]_vars

\* ------------------------------------------- the OpenVPSProcessor's life
InitVps ==
    /\ rev = 2
    /\ platform = [gl |-> TRUE, webar |-> TRUE, xrBinding |-> TRUE,
                   headset |-> TRUE, gum |-> TRUE]
    /\ IsState(DetectWebAR(Constructed(TRUE, TRUE)))
    /\ \E o \in OptionValues, serverOk \in BOOLEAN :
          /\ (~serverOk => o = BaseOptions)
          /\ VpsConstructed(o, serverOk)
    /\ helper = NewHelper("raw")
    /\ armarker = NewArmarker(<<>>, 0, TRUE, TRUE)
    /\ composed = NewComposed("raw")

NextVps ==
    \/ \E frame \in VpsFrames, drawOk \in BOOLEAN :
          VpsProcessImage(frame, drawOk)
    \/ \E blobOk \in BOOLEAN : ToBlobSettles(blobOk)
    \/ \E r \in ResponseInputs, callbackOk \in BOOLEAN :
          LocalizeSettles(r, callbackOk)
    \/ \E enabled \in BOOLEAN : VpsSetEnabled(enabled)
    \/ VpsDestroy
    \/ ClockAdvances

SpecVps == InitVps /\ [][NextVps]_vars

\* ------------------------------------------------- the helper's life
\* A helper of one of the classes, just constructed, next to a provider that
\* stays as constructed.
InitHelper ==
    /\ rev = 2
    /\ platform = [gl |-> TRUE, webar |-> TRUE, xrBinding |-> TRUE,
                   headset |-> TRUE, gum |-> TRUE]
    /\ IsState(DetectWebAR(Constructed(TRUE, TRUE)))
    /\ VpsConstructed(BaseOptions, TRUE)
    /\ \E k \in HelperKinds : helper = NewHelper(k)
    /\ armarker = NewArmarker(<<>>, 0, TRUE, TRUE)
    /\ composed = NewComposed("raw")

NextHelper ==
    \/ \E ok \in BOOLEAN : HelperInit(ok)
    \/ HelperStarts
    \/ HelperStops
    \/ \E hostOk \in BOOLEAN : HelperGetFrameData(hostOk)
    \/ \E drawOk \in BOOLEAN : VideoFrameCallback(drawOk)
    \/ \E cvFrame \in BOOLEAN : ProcessCV(cvFrame)
    \/ HelperDestroys

SpecHelper == InitHelper /\ [][NextHelper]_vars

\* --------------------------------------------- the composed frame's life
\* The viewer's pose can be unusable (all zero), which the raw camera helper
\* answers with the pose of the scene's camera element; ComposeRaw takes
\* such a host to have that element.
RawViewerMatrices == Poses \cup {Zero4}
CameraMatrices == Poses \cup {NoCamera}

InitFrame ==
    /\ rev = 2
    /\ platform = [gl |-> TRUE, webar |-> TRUE, xrBinding |-> TRUE,
                   headset |-> TRUE, gum |-> TRUE]
    /\ IsState(DetectWebAR(Constructed(TRUE, TRUE)))
    /\ VpsConstructed(BaseOptions, TRUE)
    /\ helper = NewHelper("raw")
    /\ armarker = NewArmarker(<<>>, 0, TRUE, TRUE)
    /\ \E k \in HelperKinds : composed = NewComposed(k)

NextFrame ==
    \/ \E viewerMatrix \in RawViewerMatrices, viewMatrix \in Poses,
          camera \in CameraMatrices :
          ComposeRaw(viewerMatrix, viewMatrix, camera)
    \/ \E camera \in CameraMatrices : ComposeGumPulled(camera)
    \/ \E camera \in CameraMatrices, hasCaptureTime \in BOOLEAN,
          hasPresentedFrames \in BOOLEAN :
          ComposeGumPushed(camera, hasCaptureTime, hasPresentedFrames)
    \/ \E cameraViewMatrix \in Poses, hasTimestamp \in BOOLEAN :
          ComposeWebARPulled(cameraViewMatrix, hasTimestamp)
    \/ \E cameraViewMatrix \in Poses, hasTimestamp \in BOOLEAN :
          ComposeWebARPushed(cameraViewMatrix, hasTimestamp)

SpecFrame == InitFrame /\ [][NextFrame]_vars

\* ------------------------------------------------- the origin anchor's life
\* The persistent anchors outlive the page: a session starts with what
\* earlier sessions left, here nothing, or six or seven anchors the latest
\* of which is the origin anchor localStorage names.
InitAnchors ==
    /\ rev = 2
    /\ platform = [gl |-> TRUE, webar |-> TRUE, xrBinding |-> TRUE,
                   headset |-> TRUE, gum |-> TRUE]
    /\ IsState(DetectWebAR(Constructed(TRUE, TRUE)))
    /\ VpsConstructed(BaseOptions, TRUE)
    /\ helper = NewHelper("raw")
    /\ \E k \in {0, MAX_PERSISTENT_ANCHORS - 1, MAX_PERSISTENT_ANCHORS},
          session \in BOOLEAN, persistent \in BOOLEAN :
          armarker = NewArmarker([i \in 1..k |-> i], k, session, persistent)
    /\ composed = NewComposed("raw")

NextAnchors ==
    \/ \E c \in AnchorCalls, hasFrame \in BOOLEAN : SetOriginAnchor(c, hasFrame)
    \/ \E c \in AnchorCalls, ok \in BOOLEAN : AnchorCreated(c, ok)
    \/ \E c \in AnchorCalls : DeleteSettles(c)
    \/ \E c \in AnchorCalls, ok \in BOOLEAN : HandleSettles(c, ok)

SpecAnchors == InitAnchors /\ [][NextAnchors]_vars

\* The ARMarker system and the camera provider events of its scene.
InitArmarker ==
    /\ rev = 2
    /\ platform = [gl |-> TRUE, webar |-> TRUE, xrBinding |-> TRUE,
                   headset |-> TRUE, gum |-> TRUE]
    /\ IsState(DetectWebAR(Constructed(TRUE, TRUE)))
    /\ VpsConstructed(BaseOptions, TRUE)
    /\ helper = NewHelper("raw")
    /\ armarker = NewArmarker(<<>>, 0, TRUE, TRUE)
    /\ composed = NewComposed("raw")

NextArmarker ==
    \/ \E p \in Providers \cup {0}, openvps \in BOOLEAN :
          ProviderInitialized(p, openvps)
    \/ ProviderFailed
    \/ Remove

SpecArmarker == InitArmarker /\ [][NextArmarker]_vars


\* =================================================================== claims
\* Inputs of the frame actions.
FrameKinds == {"frame"} \cup BadKinds
Deferrals == SUBSET Procs

\* destroy() ends the provider's life: it lets go of the session and of the
\* helper and empties the registry.  The properties of the running provider
\* are stated for the states before it; a provider that is destroyed and has
\* no processor registered again is covered where the property says so.
Alive == ~destroyed

\* The provider feeds its processors from pushed frames.
PushMode == rev = 2 /\ \E c \in CandidateSet : initLog[c] = "won" /\ Pushes(c)
\* The provider feeds its processors from host ticks.
TickPulled ==
    \E c \in CandidateSet : initLog[c] = "won" /\ (rev = 1 \/ UsesXRFrame(2, c))

\* ----------------------------------------------------------------- C1
C1_BusyInPushMode ==
    /\ (outcome = "distributed" /\ \E r \in rounds : r.frame = frames)
          => isPipelineBusy
    /\ (Alive /\ PushMode /\ rounds # {}) => isPipelineBusy

C1_PushStep ==
    (frames' = frames + 1) =>
        \A kind \in FrameKinds, defer \in Deferrals :
            DistributeFrameData(kind, defer) =>
                /\ isPipelineBusy =>
                      /\ invoked' = NoInvocation
                      /\ rounds' = rounds
                      /\ isPipelineBusy'
                      /\ UNCHANGED <<provVars, tagVars>>
                /\ (kind = "frame" /\ isCapturing /\ processors # {}
                        /\ ~isPipelineBusy) =>
                      /\ \A p \in Procs :
                            invoked'[p] = IF p \in processors THEN 1 ELSE 0
                      /\ (defer \cap processors # {}) =>
                            /\ isPipelineBusy'
                            /\ \E r \in rounds' : r.frame = frames'

C1_NothingQueued ==
    /\ (invoked' # NoInvocation) =>
          /\ frames' = frames + 1
          /\ \A p \in Procs : invoked'[p] <= 1
    /\ \A r \in rounds' \ rounds :
          \/ r.frame = frames' /\ frames' = frames + 1
          \/ \E q \in rounds : q.frame = r.frame /\ r.pending \subseteq q.pending

\* C1: a frame pushed to distributeFrameData while isPipelineBusy is true is
\* dropped: no processor's processImage is invoked for it, and nothing keeps
\* it for later (processImage is only ever invoked for the frame that arrives
\* in the same step).  A pushed frame that is distributed leaves
\* isPipelineBusy true until its round has settled, so of two pushed frames
\* that arrive before the first round settles the first is invoked once on
\* each registered processor and the second on none.
C1_BusyFrameDropped ==
    /\ []C1_BusyInPushMode
    /\ [][C1_PushStep]_vars
    /\ [][C1_NothingQueued]_vars

\* The second of two pushed frames has just been dropped while the round of
\* the first is pending on both processors.
C1_Witness ==
    /\ outcome = "droppedBusy"
    /\ frames = 2
    /\ invoked = NoInvocation
    /\ rounds = {[frame |-> 1, pending |-> Procs]}
    /\ processors = Procs
    /\ isPipelineBusy

C3_RoundInvokesEach ==
    outcome = "distributed" =>
        /\ \A p \in Procs : invoked[p] = IF p \in processors THEN 1 ELSE 0
        /\ \A r \in rounds : r.frame = frames => r.pending \subseteq processors
        /\ (\A r \in rounds : r.frame # frames) => ~isPipelineBusy

\* A step that settles a promise of round r takes r, as it was, out of
\* rounds.
C3_SettleStep ==
    \A r \in rounds \ rounds' : \A p \in r.pending, ok \in BOOLEAN :
        (frames' = frames /\ ProcessorSettles(r.frame, p, ok)) =>
            IF r.pending = {p}
            THEN /\ ~isPipelineBusy'
                 /\ \A x \in rounds' : x.frame # r.frame
            ELSE /\ isPipelineBusy' = isPipelineBusy
                 /\ \E x \in rounds' :
                       x.frame = r.frame /\ x.pending = r.pending \ {p}

\* C3: one distribution round invokes processImage exactly once on each
\* registered processor (none if none is registered); when the last promise
\* of the round settles, resolved or rejected, isPipelineBusy becomes false;
\* a rejection leaves the other promises of the round pending and the other
\* invocations made.
C3_RoundCompletes ==
    /\ []C3_RoundInvokesEach
    /\ [][C3_SettleStep]_vars

\* The last promise of a round on both processors has just been rejected.
C3_Witness ==
    /\ outcome = "rejected"
    /\ ~isPipelineBusy
    /\ rounds = {}
    /\ frames >= 1
    /\ processors = Procs
    /\ isCapturing

\* ----------------------------------------------------------------- C4
StreamingCalls == {"startStreaming", "stopStreaming"}
NoStreamingCall(cs) == \A i \in 1..Len(cs) : cs[i] \notin StreamingCalls

C4_CapturingIff ==
    (Alive \/ processors = {}) =>
        (isCapturing <=> (processors # {} /\ captureHelper # NULL))

C4_Idempotent ==
    \A p \in Procs :
        /\ (Alive /\ p \in processors /\ RegisterProcessor(p)) =>
              /\ isCapturing' = isCapturing
              /\ processors' = processors
              /\ NoStreamingCall(calls')
        /\ (p \notin processors /\ UnregisterProcessor(p)) =>
              /\ isCapturing' = isCapturing
              /\ processors' = processors
              /\ NoStreamingCall(calls')

Position(c) == CHOOSE i \in 1..4 : Candidates[i] = c
First(S) == CHOOSE i \in S : \A j \in S : i <= j

\* What the host answers to the probes of candidate c (lines 462, 476-479,
\* 497 with 500, 538), in the current state.
Plausible(c) ==
    CASE c = "webar-viewer" -> xrSession /\ platform.webar
      [] c = "webxr-raw-camera" ->
            xrSession /\ platform.gl /\ platform.xrBinding /\ xrRefSpace
      [] c = "ar-headset-gum" -> platform.headset /\ platform.gum
      [] c = "webar-gum" -> platform.gum

Won == {c \in CandidateSet : initLog[c] = "won"}

\* The candidate the detection is at, if any: the one whose init is awaited
\* or the one that won.
Reached == IF detectPc \in CandidateSet THEN {detectPc} ELSE Won

C5_Order ==
    /\ Cardinality(Won) <= 1
    /\ captureHelper # NULL =>
          (Won = {captureHelper} /\ activeApiName = captureHelper)
    /\ \A c \in CandidateSet : initLog[c] # "ignored"
    /\ \A c \in Reached :
          /\ Alive => Plausible(c)
          /\ \A i \in 1..4 :
                /\ i < Position(c) =>
                      /\ initLog[Candidates[i]] \in {"failed", "untried"}
                      /\ Alive => (initLog[Candidates[i]] = "failed"
                                      <=> Plausible(Candidates[i]))
                /\ i > Position(c) => initLog[Candidates[i]] = "untried"
    /\ (Alive /\ detectPc = "done") =>
          LET open == {i \in 1..4 : /\ Plausible(Candidates[i])
                                    /\ initLog[Candidates[i]] # "failed"}
          IN captureHelper = IF open = {} THEN NULL
                             ELSE Candidates[First(open)]

C5_FailureStep ==
    \A c \in CandidateSet :
        InitSettles(c, FALSE) =>
            LET later == {i \in 1..4 : /\ i > Position(c)
                                       /\ Plausible(Candidates[i])}
            IN /\ initLog'[c] = "failed"
               /\ captureHelper' = NULL
               /\ detectPc' = IF later = {} THEN "done"
                              ELSE Candidates[First(later)]

\* C5: the candidates are tried in the order webar-viewer, webxr-raw-camera,
\* ar-headset-gum, webar-gum; the active helper is the first in that order
\* that is supported and whose init returned true; a candidate whose init
\* returned false is followed by the next supported one; no second helper is
\* ever adopted.
C5_FirstSupportedWins ==
    /\ []C5_Order
    /\ [][C5_FailureStep]_vars

\* The generic getUserMedia helper is active after the raw-camera and the
\* headset candidates failed.
C5_Witness ==
    /\ detectPc = "done"
    /\ captureHelper = "webar-gum"
    /\ initLog["webxr-raw-camera"] = "failed"
    /\ initLog["ar-headset-gum"] = "failed"
    /\ Alive

\* ----------------------------------------------------------------- C6
StartCalls == {"startStreaming", "requestAnimationFrame"}

C6_Step ==
    /\ \A c \in CandidateSet :
          (Alive /\ InitSettles(c, TRUE) /\ captureHelper' # NULL) =>
              /\ isCapturing' = (processors # {})
              /\ processors' = processors
              /\ (processors # {}) =>
                    \E i \in 1..Len(calls') : calls'[i] \in StartCalls
              /\ (processors = {}) => calls' = <<>>
    /\ \A p \in Procs :
          (Alive /\ RegisterProcessor(p) /\ captureHelper # NULL
                /\ processors = {}) =>
              /\ ~isCapturing
              /\ isCapturing'
              /\ \E i \in 1..Len(calls') : calls'[i] \in StartCalls
    /\ \A p \in Procs :
          (RegisterProcessor(p) /\ captureHelper = NULL) =>
              /\ ~isCapturing'
              /\ calls' = <<>>

\* C6: if processors are registered when a candidate's init wins, capturing
\* starts in that very step, with no further registerProcessor call; if none
\* is registered then, the provider is left not capturing and the first
\* registerProcessor after it starts capturing; a registerProcessor before
\* any helper is active starts nothing.
C6_CaptureStartsEitherWay ==
    [][C6_Step]_vars

\* An init has just won with a processor waiting, and capturing has started.
C6_Witness ==
    /\ outcome = "adopted"
    /\ isCapturing
    /\ processors # {}
    /\ calls # <<>>
    /\ Alive

\* ----------------------------------------------------------------- C7
Types(msgs) == {msgs[i].type : i \in 1..Len(msgs)}

\* The KNOWN_MARKER_ADD message for a map entry.
AddFor(e) == [Msg("KNOWN_MARKER_ADD") EXCEPT !.markerid = e.id, !.size = e.size]

C7_NoAddBeforeReady ==
    /\ ~cvWorkerReady => "KNOWN_MARKER_ADD" \notin Types(posted)
    /\ \A i, j \in 1..Len(knownMarkers) :
          knownMarkers[i].id = knownMarkers[j].id => i = j

C7_Step ==
    /\ (/\ fromWorker # <<>>
        /\ Head(fromWorker).type = "INIT_DONE"
        /\ HandleCvWorkerMessage) =>
            /\ ~cvWorkerReady
            /\ cvWorkerReady'
            /\ knownMarkers' = knownMarkers
            /\ posted' = posted \o [i \in 1..Len(knownMarkers) |->
                                        AddFor(knownMarkers[i])]
    /\ \A id \in MarkerIdInputs, mm \in SizeInputs :
          (~cvWorkerReady /\ AddKnownMarker(id, mm)) =>
              /\ posted' = posted
              /\ (mm = Number(100)) =>
                    \E e \in MapEntries(knownMarkers') :
                        /\ e.id = String(id)
                        /\ e.size[1] * 10 = e.size[2]
              /\ (mm = Text(<<"1", "5", "0">>)) =>
                    \E e \in MapEntries(knownMarkers') :
                        /\ e.id = String(id)
                        /\ e.size[1] * 20 = 3 * e.size[2]

\* C7: while the worker has not signalled readiness no KNOWN_MARKER_ADD is
\* posted; addKnownMarker then only records the marker, with its size in
\* metres (100 mm as 1/10, "150" as 3/20); the handling of INIT_DONE posts
\* one KNOWN_MARKER_ADD for each entry of the map, which has one entry per
\* id, in map order and with the recorded size.
C7_MarkersReplayedOnReady ==
    /\ []C7_NoAddBeforeReady
    /\ [][C7_Step]_vars

\* INIT_DONE has just been handled with two markers buffered: two
\* KNOWN_MARKER_ADD follow INIT, the first for a 100 mm marker.
C7_Witness ==
    /\ outcome = "INIT_DONE"
    /\ cvWorkerReady
    /\ Len(knownMarkers) = 2
    /\ Len(posted) = 3
    /\ posted[2].type = "KNOWN_MARKER_ADD"
    /\ posted[2].size = <<100, 1000>>
    /\ posted[3].type = "KNOWN_MARKER_ADD"
    /\ posted[3].markerid # posted[2].markerid

\* ----------------------------------------------------------------- C8
\* Nothing is in flight between the processor and the worker.
Quiescent == workerRead = Len(posted) /\ fromWorker = <<>>

C8_Mirror ==
    Quiescent => workerMarkers = MapEntries(knownMarkers)

C8_Step ==
    (frames' = frames /\ workerRead' = workerRead /\ fromWorker' = fromWorker) =>
        /\ \A id \in MarkerIdInputs, mm \in SizeInputs :
              AddKnownMarker(id, mm) =>
                  IF outcome' = "markerRejected"
                  THEN knownMarkers' = knownMarkers /\ posted' = posted
                  ELSE /\ MapHas(knownMarkers', String(id))
                       /\ \A e \in MapEntries(knownMarkers) :
                             e.id # String(id) =>
                                 e \in MapEntries(knownMarkers')
                       /\ Len(knownMarkers') =
                             Len(knownMarkers)
                                + (IF MapHas(knownMarkers, String(id))
                                   THEN 0 ELSE 1)
        /\ \A id \in MarkerIdInputs :
              RemoveKnownMarker(id) =>
                  /\ ~MapHas(knownMarkers', String(id))
                  /\ MapEntries(knownMarkers') =
                        {e \in MapEntries(knownMarkers) : e.id # String(id)}

C9_NoFrameBeforeReady ==
    ~cvWorkerReady => "PROCESS_GSFRAME" \notin Types(posted)

C9_Step ==
    /\ \A c \in CandidateSet, canvasOk \in BOOLEAN :
          (~cvWorkerReady /\ ProcessImage(c, canvasOk)) =>
              UNCHANGED tagVars
    /\ Len(posted') >= Len(posted)
    /\ \A i \in 1..Len(posted) : posted'[i] = posted[i]
    /\ \A i \in (Len(posted) + 1)..Len(posted') :
          posted'[i].type = "PROCESS_GSFRAME" =>
              /\ cvWorkerReady
              /\ frames' = frames + 1
              /\ posted'[i].frame = frames'

\* C9: no PROCESS_GSFRAME is posted while the worker is not ready; a
\* processImage call made then changes nothing in the processor, and every
\* PROCESS_GSFRAME ever posted is for the frame of the call that posts it,
\* so a skipped frame is not posted later.
C9_NotReadyFrameSkipped ==
    /\ []C9_NoFrameBeforeReady
    /\ [][C9_Step]_vars

\* A frame has just been skipped because the worker is not ready.
C9_Witness ==
    /\ outcome = "skippedNotReady"
    /\ frames = 1
    /\ ~cvWorkerReady
    /\ posted = <<Msg("INIT")>>

\* ---------------------------------------------------------------- C10
\* C10: once the worker is ready, a processImage call with an RGBA frame of
\* any capture source, the user-media ones included, posts exactly one
\* PROCESS_GSFRAME with the frame's width, height, intrinsics and timestamp.
C10_ReadyFramePosted ==
    [][\A c \in CandidateSet, canvasOk \in BOOLEAN :
          (ProcessImage(c, canvasOk) /\ cvWorkerReady) =>
              /\ Len(posted') = Len(posted) + 1
              /\ posted'[Len(posted')].type = "PROCESS_GSFRAME"
              /\ posted'[Len(posted')].frameTimestamp = frames'
              /\ posted'[Len(posted')].width = RequestedWidth
              /\ posted'[Len(posted')].height = RequestedHeight]_vars

\* ------------------------------------------------------ OpenVPSProcessor
\* The four conditions under which processImage goes on to upload `frame`.
Eligible(frame) ==
    /\ isEnabled
    /\ frame.format = "RGBA"
    /\ now - lastSendTime >= options.interval
    /\ ~isBusy

\* A processImage call has just passed the rate limit (it is suspended at
\* toBlob now, or it has failed drawing).
Admitted == vpsOutcome \in {"admitted", "failedDraw"}

\* A call has reached mapServer.localize in this step.
CallsLocalize ==
    \E c \in inflight' : c.stage = "localize" /\ c \notin inflight

C11_OneOutstanding == Cardinality(inflight) <= 1

C11_Gate ==
    (now' = now /\ (vpsOutcome' = "failedDraw" \/ inflight \subseteq inflight'))
    => \A frame \in FrameInputs, drawOk \in BOOLEAN :
          VpsProcessImage(frame, drawOk)
          => /\ Admitted' => Eligible(frame)
             /\ ~CallsLocalize
             /\ ~Eligible(frame)
                => /\ ~Admitted'
                   /\ UNCHANGED <<isBusy, lastSendTime, retryCount,
                                  inflight, sends>>

C11_LocalizeAfterGate ==
    CallsLocalize
    => \E c \in inflight :
          /\ c.stage = "toBlob"
          /\ inflight' = (inflight \ {c}) \cup {[c EXCEPT !.stage = "localize"]}
          /\ \E i \in DOMAIN sends : sends[i].at = c.id
          /\ isBusy

\* C11: at most one localization request of the OpenVPSProcessor is
\* outstanding; processImage goes on towards mapServer.localize only when
\* the processor is enabled, the frame is RGBA, interval has elapsed since
\* lastSendTime and isBusy is false, and otherwise returns without a network
\* call and leaves isBusy, lastSendTime and retryCount alone.
C11_SingleOutstandingRequest ==
    /\ []C11_OneOutstanding
    /\ [][C11_Gate]_vars
    /\ [][C11_LocalizeAfterGate]_vars

\* A call is skipped while the request of an earlier one is outstanding,
\* although interval has elapsed since that one was sent.
C11_Witness ==
    /\ vpsOutcome = "skippedRate"
    /\ isBusy
    /\ now - lastSendTime >= options.interval
    /\ \E c \in inflight : c.stage = "localize"


\* The pairs of calls on record that both went on to mapServer.localize,
\* the earlier one first.  (sends holds the last two calls that passed the
\* rate limit; of three such calls less than interval apart, each
\* neighbouring pair is less than interval apart as well.)
RequestPairs ==
    {p \in (DOMAIN sends) \X (DOMAIN sends) :
        p[1] < p[2] /\ sends[p[1]].net /\ sends[p[2]].net}

Apart(p) == sends[p[2]].at - sends[p[1]].at

\* C12, as stated: any two processImage calls made less than interval apart
\* produce at most one network call, whatever the outcome of the first.
C12_OneRequestPerInterval ==
    \A p \in RequestPairs : Apart(p) >= options.interval

\* C12, amended: two processImage calls made less than interval apart both
\* produce a network call only if the request of the first one failed with
\* retryCount within maxRetries, and then the second call was made
\* retryDelay or more after that failure.
C12_OneRequestPerIntervalUnlessRetry ==
    [](\A p \in RequestPairs :
          Apart(p) < options.interval
          => /\ sends[p[1]].result = "failed"
             /\ sends[p[1]].count <= options.maxRetries
             /\ sends[p[2]].at >= sends[p[1]].failedAt + options.retryDelay)

\* Two requests less than interval apart, the second one a retry.
C12_Witness ==
    \E p \in RequestPairs :
        /\ Apart(p) < options.interval
        /\ sends[p[1]].result = "failed"
        /\ sends[p[2]].result = "ok"


\* The ways a call that passed the rate limit fails (the throws of the try
\* block, lines 72-156).
FailureOutcomes ==
    {"failedDraw", "failedBlob", "failedViewMatrix", "failedNoServer",
     "failedNetwork", "failedPoseFormat", "failedCallback"}

\* The first instant at which line 65 lets a call through again.
NextEligibleAt == lastSendTime + options.interval

C13_FailureStep ==
    vpsOutcome' \in FailureOutcomes
    => /\ retryCount' = retryCount + 1
       /\ ~isBusy'
       /\ NextEligibleAt' = IF retryCount' <= options.maxRetries
                            THEN now + options.retryDelay
                            ELSE now + options.interval
       /\ (options.maxRetries = 2 /\ retryCount' = 3)
          => NextEligibleAt' = now + options.interval

\* No call passes the rate limit before the instant the failure of the one
\* before it has set.
C13_NoCallBefore ==
    \A i \in DOMAIN sends, j \in DOMAIN sends :
        (i < j /\ sends[i].result = "failed")
        => sends[j].at >= sends[i].failedAt +
                          (IF sends[i].count <= options.maxRetries
                           THEN options.retryDelay ELSE options.interval)

\* C13: each failing call increments retryCount by one; while retryCount <=
\* maxRetries the next call is eligible retryDelay after the failure, and
\* beyond that (the third failure in a row with maxRetries = 2) only a full
\* interval after it.
C13_BoundedRetry ==
    /\ [][C13_FailureStep]_vars
    /\ []C13_NoCallBefore

\* With maxRetries = 2: two quick retries have failed too, and the next
\* request went out a full interval after the third failure.
C13_Witness ==
    /\ options.maxRetries = 2
    /\ Len(sends) = 2
    /\ sends[1].result = "failed"
    /\ sends[1].net
    /\ sends[1].count = 3
    /\ sends[2].at = sends[1].failedAt + options.interval
    /\ sends[2].net


C14_IdleNotBusy == inflight = {} => ~isBusy

\* A call that had passed the rate limit has returned in this step.
CallEnds ==
    \/ \E c \in inflight : \A d \in inflight' : d.id # c.id
    \/ vpsOutcome' = "failedDraw"

C14_ClearedAtEnd ==
    CallEnds => ~isBusy'

\* C14: isBusy is false whenever no processImage call is under way: every
\* call that set it clears it when it ends, with a fix, without one, or
\* with an error thrown at any step.
C14_BusyClearedByEveryCall ==
    /\ []C14_IdleNotBusy
    /\ [][C14_ClearedAtEnd]_vars

\* A call has failed, and the next eligible call went through.
C14_Witness ==
    /\ Len(sends) = 2
    /\ sends[1].result = "failed"
    /\ sends[2].result = "pending"
    /\ vpsOutcome = "admitted"
    /\ isBusy


\* A call suspended at mapServer.localize has ended in this step.
LocalizeEnds ==
    /\ now' = now
    /\ \E c \in inflight : c.stage = "localize" /\ c \notin inflight'

\* The poses line 137-142 accept.
WellFormed(r) == r.pose \in {"rows", "flat16"}

\* C15, as stated: a response with confidence <= 0 or without a pose is no
\* error (no callback, retryCount not incremented); the callback is invoked
\* exactly once for each response with a pose and a positive confidence; and
\* every non-failing response resets retryCount to 0.
C15_NoFixIsNoError ==
    [][LocalizeEnds
       => \A r \in ResponseInputs, callbackOk \in BOOLEAN :
             (LocalizeSettles(r, callbackOk) /\ ~r.rejected)
             => /\ retryCount' = 0
                /\ ~HasFix(r) => poseUpdates' = 0
                /\ (HasFix(r) /\ options.onPoseUpdate) => poseUpdates' = 1]_vars

C15_Step ==
    LocalizeEnds
    => \A r \in ResponseInputs, callbackOk \in BOOLEAN :
          (LocalizeSettles(r, callbackOk) /\ ~r.rejected)
          => /\ ~HasFix(r)
                => /\ poseUpdates' = 0
                   /\ retryCount' = 0
                   /\ vpsOutcome' \notin FailureOutcomes
             /\ (HasFix(r) /\ WellFormed(r))
                => /\ poseUpdates' = IF options.onPoseUpdate THEN 1 ELSE 0
                   /\ retryCount' = IF callbackOk THEN 0 ELSE retryCount + 1
             /\ (HasFix(r) /\ ~WellFormed(r))
                => /\ poseUpdates' = 0
                   /\ retryCount' = retryCount + 1

\* C15, amended: a response with confidence <= 0 or without a pose is no
\* error: no callback, and retryCount is reset to 0.  The callback, where
\* one was given, is invoked exactly once for each response with a positive
\* confidence and a pose that is an array of arrays or of 16 elements, and
\* retryCount is reset to 0 unless the callback throws.  A pose of any
\* other format is an error: no callback, and retryCount is incremented.
C15_NoFixIsNoErrorWellFormed == [][C15_Step]_vars

\* A response without a fix has reset the retryCount a failure had left.
C15_Witness ==
    /\ vpsOutcome = "noFix"
    /\ Len(sends) = 2
    /\ sends[1].result = "failed"
    /\ sends[2].result = "ok"
    /\ retryCount = 0
    /\ poseUpdates = 0


\* A response with a pose and a confidence that is not positive.
LowConfidence(r) ==
    ~r.rejected /\ ~r.isNull /\ r.pose # "none" /\ r.serverConfidence <= 0

\* C16: a low-confidence localization result triggers the bounded retry as
\* a network error does: it counts toward retryCount, and the next request
\* is eligible retryDelay after it while retryCount <= maxRetries, a full
\* interval after it beyond that.
C16_LowConfidenceRetries ==
    [][LocalizeEnds
       => \A r \in ResponseInputs :
             (LocalizeSettles(r, TRUE) /\ LowConfidence(r))
             => /\ retryCount' = retryCount + 1
                /\ NextEligibleAt' = IF retryCount' <= options.maxRetries
                                     THEN now + options.retryDelay
                                     ELSE now + options.interval]_vars


\* ---------------------------------------------- CameraImageProvider, stopped
C17_Step ==
    (frames' = frames + 1 /\ ~isCapturing)
    => \A kind \in FrameKinds, defer \in Deferrals :
          DistributeFrameData(kind, defer)
          => /\ invoked' = NoInvocation
             /\ isPipelineBusy' = isPipelineBusy
             /\ rounds' = rounds
             /\ ~isCapturing'

\* C17: once the provider has stopped capturing (the last processor was
\* unregistered, or destroy was called), a frame pushed late to
\* distributeFrameData invokes processImage on no processor and does not set
\* isPipelineBusy.
C17_LateFrameIgnored == [][C17_Step]_vars

\* A helper the provider has destroyed pushes a frame, processors being
\* registered (again) and the pipeline idle.
C17_Witness ==
    /\ outcome = "droppedStopped"
    /\ destroyed
    /\ processors # {}
    /\ ~isPipelineBusy
    /\ ~isCapturing


\* The pending tick callback runs while the provider is stopped.
C18_StoppedTick ==
    (~isCapturing /\ frames' = frames /\ rounds' = rounds)
    => \A cb \in TickHandlers, pose \in BOOLEAN :
          Tick(cb, pose)
          => /\ calls' = <<>>
             /\ awaiting' = awaiting
             /\ invoked' = NoInvocation
             /\ rafPending' = [rafPending EXCEPT ![cb] = @ - 1]
             /\ ~isCapturing'
             /\ isPipelineBusy' = isPipelineBusy

\* No step that leaves the provider stopped requests a host tick.
C18_NoRequestWhileStopped ==
    (~isCapturing /\ ~isCapturing')
    => /\ \A i \in 1..Len(calls') : calls'[i] # "requestAnimationFrame"
       /\ Total(rafPending') <= Total(rafPending)

Quiet(s) == [s EXCEPT !.calls = <<>>]

\* _stopCaptureLoop and destroy, called right after themselves, make no
\* call and change nothing.
C18_SecondCallNoOp ==
    /\ LET a == Quiet(StopCaptureLoop(Cur))
       IN StopCaptureLoop(a) = a
    /\ LET a == Quiet(DestroyOp(Cur))
       IN DestroyOp(a) = a

\* C18: after _stopCaptureLoop or destroy the provider requests no further
\* host tick: the tick callback that was pending runs once, does not call
\* getFrameData, distributes nothing and requests no other tick; a second
\* stop or destroy changes nothing and calls stopStreaming no second time.
C18_StopEndsTickLoop ==
    /\ [][C18_StoppedTick]_vars
    /\ [][C18_NoRequestWhileStopped]_vars
    /\ []C18_SecondCallNoOp

\* The provider has captured frames of an XRFrame helper tick by tick, was
\* destroyed with the next tick requested, and that callback has run.
C18_Witness ==
    /\ destroyed
    /\ frames > 0
    /\ \E c \in CandidateSet : initLog[c] = "won" /\ UsesXRFrame(rev, c)
    /\ Total(rafPending) = 0
    /\ Total(awaiting) = 0
    /\ ~isCapturing


Count(cs, what) == Cardinality({i \in 1..Len(cs) : cs[i] = what})

\* unregisterProcessor takes the last processor away while capturing.
C19_LastUnregistered ==
    (isCapturing /\ processors' = {} /\ frames' = frames)
    => \A p \in Procs :
          (UnregisterProcessor(p) /\ processors = {p})
          => /\ Count(calls', "stopStreaming") = 1
             /\ Count(calls', "destroy") = 0
             /\ ~isCapturing'
             /\ captureHelper' = captureHelper
             /\ captureHelper' # NULL
             /\ activeApiName' = activeApiName

\* registerProcessor on the provider as that leaves it: frames have been
\* captured, the helper is in place, no processor is registered.
C19_Resumed ==
    (frames > 0 /\ processors = {} /\ ~isCapturing /\ captureHelper # NULL
     /\ frames' = frames)
    => \A p \in Procs :
          RegisterProcessor(p)
          => /\ isCapturing'
             /\ captureHelper' = captureHelper
             /\ activeApiName' = activeApiName
             /\ Count(calls', "startStreaming") = 1

\* C19: unregisterProcessor removing the last processor calls stopStreaming
\* on the active helper exactly once and sets isCapturing to false, but
\* leaves the helper alive (captureHelper and activeApiName unchanged, no
\* destroy), and a later registerProcessor resumes capturing on the same
\* helper with startStreaming called again.
C19_StopKeepsHelper ==
    /\ [][C19_LastUnregistered]_vars
    /\ [][C19_Resumed]_vars


\* What destroy leaves, whatever the state it is called in.
C20_Torn ==
    /\ captureHelper' = NULL
    /\ activeApiName' = NULL
    /\ processors' = {}
    /\ ~isCapturing'
    /\ ~isPipelineBusy'

\* The helper was adopted in the step before, with no processor waiting
\* for it: no streaming call has been made on it.
FreshHelper == captureHelper # NULL /\ outcome = "adopted" /\ processors = {}

C20_Step ==
    Destroy
    => /\ C20_Torn
       /\ calls' = IF captureHelper = NULL THEN <<>>
                   ELSE IF isCapturing THEN <<"stopStreaming", "destroy">>
                   ELSE <<"destroy">>

C21_RejectionIsFailure ==
    [][\A c \in CandidateSet :
          InitRejects(c) =>
              LET later == {i \in 1..4 : /\ i > Position(c)
                                         /\ Plausible(Candidates[i])}
              IN /\ outcome' # "unhandledRejection"
                 /\ captureHelper' = NULL
                 /\ detectPc' = IF later = {} THEN "done"
                                ELSE Candidates[First(later)]]_vars

\* The same for the two candidates whose init is awaited inside a try.
C21_GumRejectionIsFailure ==
    [][\A c \in {"ar-headset-gum", "webar-gum"} :
          InitRejects(c) =>
              LET later == {i \in 1..4 : /\ i > Position(c)
                                         /\ Plausible(Candidates[i])}
              IN /\ outcome' = "initErrorCaught"
                 /\ initLog'[c] = "failed"
                 /\ captureHelper' = NULL
                 /\ detectPc' = IF later = {} THEN "done"
                                ELSE Candidates[First(later)]]_vars


\* ---------------------------------------------------------------- C22
\* The detection run ends in this step.
DetectionEnds == detectPc # "done" /\ detectPc' = "done"

\* C22: when no candidate could be initialized, the failure is reported
\* exactly once in the detection run: _handleApiInitializationError is
\* invoked once by the handler that ends the run, and by no handler twice.
C22_ReportedOnce ==
    /\ [](Count(calls, "apiInitializationError") <= 1)
    /\ [][(DetectionEnds /\ captureHelper' = NULL)
              => Count(calls', "apiInitializationError") = 1]_vars

\* What the code does instead: every detection run that ends without a
\* helper has reported twice, in the constructor's task as well.
C22_ReportedTwice ==
    /\ [](Count(calls, "apiInitializationError") \in {0, 2})
    /\ [][(DetectionEnds /\ captureHelper' = NULL)
              => Count(calls', "apiInitializationError") = 2]_vars


\* ---------------------------------------------------------------- C23
\* A tick handler that suspends at getFrameData has requested the next tick
\* before, in the same task.
C23_RequestedBeforeAwait ==
    \A cb \in TickHandlers :
        awaiting'[cb] > awaiting[cb] =>
            /\ Count(calls', "requestAnimationFrame") = 1
            /\ rafPending'[cb] >= 1

\* The tick whose getFrameData throws does nothing more: the flags, the
\* pending ticks, the rounds and the registry are as they were, and no
\* processor is invoked.
C23_ThrowStep ==
    \A cb \in TickHandlers :
        GetFrameDataSettles(cb, "throw", {}) =>
            /\ outcome' = "frameError"
            /\ isCapturing' = isCapturing
            /\ isPipelineBusy' = isPipelineBusy
            /\ rafPending' = rafPending
            /\ rounds' = rounds
            /\ processors' = processors
            /\ captureHelper' = captureHelper
            /\ invoked' = NoInvocation
            /\ awaiting'[cb] = awaiting[cb] - 1

\* A tick whose getFrameData yields a frame hands it to every registered
\* processor, whatever happened on the ticks before.
C23_FrameStep ==
    \A cb \in TickHandlers :
        (awaiting[cb] > 0 /\ frames' = frames + 1
            /\ awaiting'[cb] = awaiting[cb] - 1) =>
            /\ outcome' = "distributed"
            /\ invoked' = Invocations(processors)

\* While the provider captures from a tick-pulled helper, a tick is
\* requested or a handler is suspended.
C23_LoopAlive ==
    (isCapturing /\ TickPulled) => Total(rafPending) + Total(awaiting) > 0

\* C23: an exception of getFrameData aborts only its tick: the next tick was
\* requested before the await, the throw changes neither isCapturing nor
\* isPipelineBusy nor anything else of the provider, the loop stays alive,
\* and a tick that yields a frame is distributed.
C23_ThrowAbortsOneTick ==
    /\ []C23_LoopAlive
    /\ [][C23_RequestedBeforeAwait]_vars
    /\ [][C23_ThrowStep]_vars
    /\ [][C23_FrameStep]_vars

\* getFrameData has just thrown; the provider still captures, the pipeline is
\* free and the next tick is pending.
C23_Witness ==
    /\ outcome = "frameError"
    /\ isCapturing
    /\ ~isPipelineBusy
    /\ processors # {}
    /\ Total(rafPending) > 0
    /\ frames < MaxFrames


\* ---------------------------------------------------------------- C24
\* C24: while the helper's streaming flag is off, getFrameData of a pulled
\* helper returns null, and a frame callback of a pushing helper hands no
\* frame to distributeFrameData and requests no further callback.
C24_Step ==
    ~helper.isStreaming =>
        /\ \A hostOk \in BOOLEAN :
              HelperGetFrameData(hostOk) => helper'.returned = "null"
        /\ \A drawOk \in BOOLEAN :
              VideoFrameCallback(drawOk) =>
                  /\ helper'.delivered = 0
                  /\ helper'.armed = helper.armed - 1
        /\ \A cvFrame \in BOOLEAN :
              ProcessCV(cvFrame) => helper'.delivered = 0

C24_NoFrameWhileNotStreaming ==
    [][C24_Step]_vars

\* An initialized helper whose streaming flag is off has just answered
\* getFrameData with null.
C24_Witness ==
    /\ helper.returned = "null"
    /\ helper.isCapturing
    /\ ~helper.isStreaming
    /\ helper.resource
    /\ helper.kind = "raw"
    /\ helper.destroys = 0


\* ---------------------------------------------------------------- C25
\* C25: for an initialized pushing helper, after startStreaming and while
\* streaming stays on, each frame callback of the source (the video frame
\* callback, window.processCV) hands one frame to distributeFrameData, and
\* the helper has the next callback requested.
C25_PushDelivers ==
    [][(helper.isCapturing /\ helper.isStreaming) =>
          /\ (VideoFrameCallback(TRUE) /\ ~helper.paused) =>
                /\ helper'.delivered = 1
                /\ helper'.armed >= 1
          /\ ProcessCV(TRUE) => helper'.delivered = 1]_vars

\* What the code does: no frame callback ever hands over a frame or asks
\* for another callback.
C25_NothingDelivered ==
    /\ [](helper.delivered = 0)
    /\ [][\A drawOk \in BOOLEAN :
             VideoFrameCallback(drawOk) => helper'.armed = helper.armed - 1]_vars


\* ---------------------------------------------------------------- C26
\* C26, the helper's part: once the provider has started the streaming of
\* an initialized pulled helper, a getFrameData call on a tick on which the
\* source has a frame returns that frame (which the provider then
\* distributes).
C26_PullReturnsFrame ==
    [][(helper.isCapturing /\ helper.isStreaming /\ ~helper.paused) =>
          (HelperGetFrameData(TRUE) => helper'.returned = "frame")]_vars

\* What the code does: getFrameData returns null on every call.
C26_AlwaysNull ==
    [](helper.returned \in {"", "true", "false", "null"})


\* ---------------------------------------------------------------- C27
\* The helper composes a frame in this step: it writes the pixels into
\* this.framePixels and the pose into its reusable matrices, in place
\* (getusermedia-helper.js 441-449 and 465-477 before distributeFrameData is
\* called at 502; webxr-raw-camera-helper.js 232-245 in getFrameData).
ComposesFrame ==
    \/ \E defer \in Deferrals : DistributeFrameData("frame", defer)
    \/ \E cb \in TickHandlers, defer \in Deferrals :
          GetFrameDataSettles(cb, "frame", defer)

RoundPending == \E r \in rounds : r.pending # {}

\* C27: the pixel buffer and the matrices handed to a distribution round are
\* not written again by the helper before the round has completed, also
\* when the source produces frames that the provider drops as busy.
C27_BufferStableDuringRound ==
    [][RoundPending => ~ComposesFrame]_vars


\* ---------------------------------------------------------------- C28
\* C28: destroy can be called any number of times, and after destroy the
\* other methods do nothing: init acquires nothing and leaves the helper
\* uninitialized, startStreaming starts no frame production, getFrameData
\* returns null.
C28_DestroyedIsInert ==
    /\ [](ENABLED HelperDestroys)
    /\ [][helper.destroys > 0 =>
             /\ \A ok \in BOOLEAN :
                   HelperInit(ok) => /\ ~helper'.acquired
                                     /\ ~helper'.isCapturing
             /\ HelperStarts => /\ helper'.armed = helper.armed
                                /\ ~helper'.processCV
             /\ \A hostOk \in BOOLEAN :
                   HelperGetFrameData(hostOk) => helper'.returned = "null"]_vars

\* The part that holds for every helper: destroy can always be called, a
\* repeated destroy changes nothing but the count of the calls, and after
\* destroy startStreaming produces nothing and getFrameData returns null
\* until an init succeeds again.
C28_DestroyRepeatable ==
    /\ [](ENABLED HelperDestroys)
    /\ [][(helper.destroys > 0 /\ ~helper.isCapturing) =>
             /\ HelperDestroys =>
                   /\ ~helper'.isCapturing /\ ~helper'.isStreaming
                   /\ ~helper'.resource /\ ~helper'.processCV
                   /\ helper'.armed = helper.armed
             /\ HelperStarts => /\ helper'.armed = helper.armed
                                /\ ~helper'.processCV
             /\ \A hostOk \in BOOLEAN :
                   HelperGetFrameData(hostOk) => helper'.returned = "null"]_vars


\* ---------------------------------------------------------------- C29
\* A helper whose init failed is never the active one, and helper.destroy is
\* called by provider.destroy alone, once if a helper is active and not at
\* all otherwise.
C29_AtMostOnce ==
    /\ [](\A c \in CandidateSet :
             initLog[c] \in {"failed", "rejected"} => captureHelper # c)
    /\ [][Count(calls', "destroy")
             = IF Destroy /\ captureHelper # NULL THEN 1 ELSE 0]_vars

\* C29: every helper created by the detection is torn down exactly once: a
\* helper whose init failed never becomes active, and the helper that became
\* active has had destroy called once when the provider's life is over,
\* whatever register, unregister and destroy calls were made; a second
\* provider.destroy does not destroy it again.
C29_TornDownExactlyOnce ==
    /\ C29_AtMostOnce
    /\ [](destroyed => captureHelper = NULL)


\* ------------------------------------------------------------------ C30
\* The sizes addKnownMarker refuses: zero, a negative number, and a text
\* parseFloat reads no number from.
C30_RefusedSizes == {Number(0), Number(0 - 5), Text(<<"a", "b", "c">>)}

C30_OnlyPositiveSizes ==
    /\ \A e \in MapEntries(knownMarkers) : e.size[1] > 0 /\ e.size[2] = 1000
    /\ \A i \in 1..Len(posted) :
          posted[i].type = "KNOWN_MARKER_ADD" => posted[i].size[1] > 0

C30_Step ==
    /\ \A id \in MarkerIdInputs, mm \in C30_RefusedSizes :
          AddKnownMarker(id, mm) =>
              /\ outcome' = "markerRejected"
              /\ knownMarkers' = knownMarkers
              /\ posted' = posted
              /\ cvWorkerReady' = cvWorkerReady
    /\ (/\ fromWorker # <<>>
        /\ Head(fromWorker).type = "INIT_DONE"
        /\ HandleCvWorkerMessage) =>
            \A i \in (Len(posted) + 1)..Len(posted') :
                \E e \in MapEntries(knownMarkers) : posted'[i] = AddFor(e)

C31_EventFor(m) ==
    [detections |-> IF m.detections \in {"absent", "empty"} THEN "empty"
                    ELSE "some",
     ts |-> m.ts]

C31_Step ==
    /\ (fromWorker # <<>> /\ HandleCvWorkerMessage) =>
          /\ fromWorker' = Tail(fromWorker)
          /\ events' = IF Head(fromWorker).type = "FRAME_RESULTS"
                       THEN <<C31_EventFor(Head(fromWorker))>>
                       ELSE <<>>
    /\ ~HandleCvWorkerMessage =>
          /\ events' = <<>>
          /\ Len(fromWorker') >= Len(fromWorker)
          /\ SubSeq(fromWorker', 1, Len(fromWorker)) = fromWorker

\* C31: the handling of a worker message takes the oldest message not yet
\* handled; for FRAME_RESULTS it dispatches exactly one 'armarker-detection'
\* event with that message's timestamp and detections (an empty list when
\* the message has none), for INIT_DONE and ERROR it dispatches none; no
\* other step dispatches an event or reorders the waiting messages, so the
\* events follow the order in which the worker sent the results.
C31_ResultsRebroadcastInOrder == [][C31_Step]_vars

\* The result of the first frame was just re-broadcast, without detections
\* in the message, while the result of the second frame waits.
C31_Witness ==
    /\ outcome = "FRAME_RESULTS"
    /\ events = <<[detections |-> "empty", ts |-> 1]>>
    /\ fromWorker # <<>>
    /\ Head(fromWorker).type = "FRAME_RESULTS"
    /\ Head(fromWorker).ts = 2


\* ------------------------------------------------------------------ C32
C32_AtMostSeven == Len(armarker.persistentAnchors) <= MAX_PERSISTENT_ANCHORS

\* A call that found the store at capacity and persisted its anchor evicted
\* the oldest anchor and no other.
C32_EvictsOldest ==
    \A c \in AnchorCalls :
        (/\ armarker.call[c].pc = "requesting"
         /\ armarker.call[c].startLen >= MAX_PERSISTENT_ANCHORS
         /\ HandleSettles(c, TRUE)) =>
            armarker.call[c].evicted = <<armarker.call[c].startOldest>>

\* With no call in progress and eight or more anchors issued the store holds
\* the seven issued last, oldest first.
C32_SevenMostRecent ==
    (InProgress(armarker) = {} /\ armarker.nextHandle > MAX_PERSISTENT_ANCHORS + 1) =>
        armarker.persistentAnchors =
            [i \in 1..MAX_PERSISTENT_ANCHORS |->
                 armarker.nextHandle - 1 - MAX_PERSISTENT_ANCHORS + i]

\* C32: after any sequence of setOriginAnchor calls the session holds at
\* most 7 persistent anchors; a call that persists its anchor while the
\* store is at capacity evicts exactly one anchor, the oldest; after eight
\* insertions the store holds the seven anchors created last.
C32_CappedOldestFirst ==
    /\ []C32_AtMostSeven
    /\ []C32_SevenMostRecent
    /\ [][C32_EvictsOldest]_vars

\* What holds: as long as no two calls were in progress together the store
\* never exceeds 7 anchors, and it never holds more than one anchor this
\* behaviour issued; a call deletes at most two anchors and adds at most one.
C32_CapWithoutOverlap ==
    /\ [](~armarker.overlapped =>
            /\ C32_AtMostSeven
            /\ \A i \in 1..Len(armarker.persistentAnchors) :
                   armarker.persistentAnchors[i] >= armarker.firstHandle =>
                       armarker.persistentAnchors[i] = armarker.originAnchorKey)
    /\ [](\A c \in AnchorCalls : Len(armarker.call[c].evicted) <= 2)
    /\ [][Len(armarker'.persistentAnchors) <= Len(armarker.persistentAnchors) + 1]_vars


\* ------------------------------------------------------------------ C33
\* The two matrices of md compose to the identity, in either order.
InverseOfEachOther(md) ==
    /\ MultiplyMatrices(md.viewTransformMatrix, md.worldPose) = Identity4
    /\ MultiplyMatrices(md.worldPose, md.viewTransformMatrix) = Identity4

\* C33: in every frame a capture helper composes, metadata.viewTransformMatrix
\* is the inverse of metadata.worldPose of the same sample.
C33_ViewIsInverseOfWorld ==
    composed.metadata # NoMetadata => InverseOfEachOther(composed.metadata)

\* What holds: the claim for the GUM and the WebARViewer helpers; the
\* WebXRRawCameraCaptureHelper hands out the view's own transform as
\* viewTransformMatrix, with the product of the viewer's and the view's
\* transform as worldPose.
C33_AllButRawCamera ==
    (composed.metadata # NoMetadata /\ composed.kind # "raw") =>
        InverseOfEachOther(composed.metadata)


\* ------------------------------------------------------------------ C34
\* C34: the metadata.timestamp of a frame is not below the timestamp of the
\* frame the same capture source composed before it, whichever of the time
\* fields the host's samples carry.
C34_TimestampsNeverDecrease ==
    composed.previous # 0 => composed.metadata.timestamp >= composed.previous

\* What holds: the helpers that stamp a frame with the time of the host tick
\* (GetUserMediaCaptureHelper as pulled, WebXRRawCameraCaptureHelper) never
\* go back; and every timestamp is one of the host's readings, never 0.
C34_TickTimeNeverDecreases ==
    /\ (composed.previous # 0 /\ composed.kind \in {"raw", "gum-pulled"}) =>
          composed.metadata.timestamp >= composed.previous
    /\ composed.metadata # NoMetadata =>
          composed.metadata.timestamp \in
              {composed.host.now, composed.host.captureTime,
               composed.host.presentedFrames, composed.host.cvTimestamp} \ {0}


\* ------------------------------------------------------------------ C35
\* A processor's promise of an earlier round is pending: what the async
\* processImage of OpenVPSProcessor returns stays pending from toBlob until
\* the map server has answered.
RequestOutstanding == \E r \in rounds : r.pending # {}

C35_Step == RequestOutstanding => outcome' # "droppedBusy"

\* C35: while a processor's request is outstanding isPipelineBusy is not
\* held for it, and a frame that arrives meanwhile is not dropped because
\* the pipeline is busy but distributed to the registered processors.
C35_RequestDoesNotBlock ==
    /\ [](RequestOutstanding => ~isPipelineBusy)
    /\ [][C35_Step]_vars


\* ------------------------------------------------------------------ C36
\* The promises of the round that froze the pipeline are all settled and
\* the flag is still set: nothing but destroy() will clear it.
Wedged == isPipelineBusy /\ rounds = {}

\* C36: the pipeline is never wedged busy.  Whenever isPipelineBusy is set,
\* it is cleared again later, also when a registered processor's
\* processImage throws or returns no promise.
C36_BusyAlwaysClears == isPipelineBusy ~> ~isPipelineBusy

\* With processors that keep the contract (Spec): a set flag always has a
\* pending Promise.all behind it, whose finally clears it.
C36_BusyHasPendingRound == isPipelineBusy => rounds # {}

\* ------------------------------------------------------------------ C37
\* C37: at most one host-tick request of the provider is outstanding at any
\* time, for any sequence of registerProcessor / unregisterProcessor calls.
C37_OneTickOutstanding == Total(rafPending) <= 1

\* What holds: a running handler requests no more ticks than it consumed;
\* only _startCaptureLoop adds one.
C37_OnlyStartAddsTick ==
    [][Total(rafPending') > Total(rafPending) =>
          ~isCapturing /\ isCapturing']_vars


\* ------------------------------------------------------------------ C38
\* C38: once destroy has been called, captureHelper stays null and
\* isCapturing stays false in every later state, also when a helper init
\* that was pending at destroy time succeeds afterwards and a processor is
\* registered later.
C38_DestroyIsFinal == destroyed => (captureHelper = NULL /\ ~isCapturing)

\* What holds: destroy itself leaves no helper and no capture behind, and
\* a destroyed provider with no init pending stays that way.
C38_DestroyLeavesNothing ==
    [][/\ Destroy => (captureHelper' = NULL /\ ~isCapturing')
       /\ (destroyed /\ detectPc \notin CandidateSet /\ captureHelper = NULL)
             => (captureHelper' = NULL /\ ~isCapturing')]_vars


\* ------------------------------------------------------------------ C39
\* C39: after OpenVPSProcessor.destroy() or setEnabled(false) the
\* onPoseUpdate callback is never invoked again, also when a localization
\* request that was in flight completes later with a pose and a positive
\* confidence.
C39_Step == ~isEnabled => poseUpdates' = 0
C39_NoPoseUpdateWhileOff == [][C39_Step]_vars

\* What holds: a disabled or destroyed processor invokes onPoseUpdate only
\* for a request that had reached mapServer.localize before, as that
\* request's answer is handled.
C39_OnlyInFlightAnswers ==
    [][(~isEnabled /\ poseUpdates' > 0) =>
          \E c \in inflight : c.stage = "localize" /\ c \notin inflight']_vars


\* ------------------------------------------------------------------ C40
\* The marker-detection processors that still have their worker, and the
\* registrations of processor x.
LiveTagProcessors == {x \in armarker.cv.live : x.kind = "apriltag"}
RegistrationsOf(x) == {r \in armarker.cv.registered : r[2] = x}

\* C40: the ARMarker system holds at most one live marker-detection
\* processor at any time and registers it with a provider at most once,
\* whatever camera-provider-initialized and camera-provider-failed events
\* arrive.
C40_OneLiveTagProcessor ==
    /\ Cardinality(LiveTagProcessors) <= 1
    /\ \A x \in LiveTagProcessors : Cardinality(RegistrationsOf(x)) <= 1

\* What holds: a processor is constructed only by a step that gives the
\* system a provider it did not have, each processor is registered with
\* one provider at most, and remove leaves the processor the system still
\* points to neither live nor registered.
C40_CreatedWithNewProvider ==
    /\ [](\A x \in LiveTagProcessors : Cardinality(RegistrationsOf(x)) <= 1)
    /\ [][armarker'.cv.created > armarker.cv.created =>
             (armarker.cv.provider = 0 /\ armarker'.cv.provider # 0)]_vars
    /\ [][Remove =>
             LET x == Processor("apriltag", armarker.cv.aprilTagProcessor)
             IN x \notin armarker'.cv.live
                /\ (armarker.cv.provider # 0 =>
                       <<armarker.cv.provider, x>>
                           \notin armarker'.cv.registered)]_vars

=============================================================================
